---- MODULE Spec2Model ----
(***************************************************************************)
(* A model of the COBOL listing analysis pipeline: line normalisation,     *)
(* copy-module expansion, data dictionary construction, paragraph / call   *)
(* scanning and call-graph analytics.  Python strings are TLA+ strings     *)
(* (TLC evaluates Len, SubSeq, Head, Tail and \o on them), so column       *)
(* positions and textual matching are modelled character by character.     *)
(* Each component has its own specification (SpecDict, SpecScan, ...);     *)
(* the variables of the other components stay at their initial value.      *)
(***************************************************************************)
EXTENDS Integers, Sequences, FiniteSets, TLC

VARIABLES
    \* ---- data dictionary (build_data_dictionary.py) ----
    dd_pc,            \* "parse" | "filter" | "build" | "done"
    dd_input,         \* the lines of the .etude read so far by the parse loop
    current_program,  \* running context of the parse loop ("" for None)
    current_section,  \* running context of the parse loop ("" for None)
    current_source,   \* running context of the parse loop ("MAIN" or copy name)
    rules,            \* the loaded ignore rules
    entries,          \* the list of declarations (dicts)
    stack,            \* build_hierarchy: stack of <<level, name, full_path>>
    last_non_88,      \* build_hierarchy: <<level, name, full_path>> or <<>> for None
    hi,               \* build_hierarchy: index of the next entry of the for loop
    \* ---- paragraphs, calls and exits (analysis_core.py) ----
    sc_pc,            \* "read" | "scan" | "done"
    lines,            \* the lines of the .etude, 72 columns each
    paragraphs,       \* list of Paragraph(order, seq, name, start_index)
    scan,             \* callers_by_target, exits_by_paragraph and the counters
    idx_p,            \* _scan_calls_and_exits: index of the next paragraph
    entry_points,     \* AnalysisResult.entry_points
    \* ---- call-graph analytics (report_markdown.py) ----
    cy_pc,            \* "build" | "cycles" | "done"
    call_graph,       \* call_graph[source] = set of targets
    cycles,           \* find_cycles: the cycles reported so far
    visited,          \* find_cycles: visited
    cy_stack,         \* find_cycles: stack (the current path)
    cy_frames,        \* find_cycles: the pending dfs calls, with the successors
                      \* each has still to iterate
    cy_i,             \* find_cycles: index of the next key of the outer loop
    \* ---- line normalizer (normalize_file.py) ----
    nz_pc,            \* "read" | "run1" | "written" | "run2" | "done"
    nz_lines,         \* normalize_file: lines (the raw input)
    seq_start,        \* normalize_file: seq_start
    nz_seq,           \* normalize_file: seq
    out_lines,        \* normalize_file: out_lines
    nz_i,             \* index of the next raw line of the loop
    first_out,        \* the lines written by the first run
    \* ---- COPY expansion (copy_expander.py, pipeline and archive) ----
    cp_pc,            \* "setup" | "run" | "done" | "raised"
    cp_mode,          \* "pipeline" | "archive": the expander in use
    library,          \* library[name] = the lines of copy module name
    cp_frames,        \* the calls in progress, outermost first
    _stack,           \* expand_copybooks: _stack, shared by all the calls
    cp_output,        \* the lines the outermost call returns
    cp_steps,         \* the loop iterations and returns executed so far
    cp_literal,       \* the COPY statements met whose module is not found or is
                      \* already being expanded (module name and lines of each)
    \* ---- chains and reachability (report_markdown.py) ----
    ga_pc,            \* "idle" | "paths" | "reach"
    ga_entry,         \* the entry_points argument
    max_len,          \* compute_longest_paths: max_len
    examples,         \* compute_longest_paths: examples
    reachable,        \* compute_reachable_from_entry_points: reachable
    unreachable,      \* write_risk_analysis: unreachable
    \* ---- cleanliness score (report_markdown.py) ----
    cs_pc,            \* "idle" | "done"
    stats,            \* analysis.stats
    cs_entry,         \* analysis.entry_points
    breakdown,        \* the dictionary compute_cleanliness_score returns
    \* ---- variable usage (scan_variable_usage.py) ----
    us_pc,            \* "idle" | "scan" | "done"
    us_lines,         \* scan_procedure_usage: lines (the whole .etude)
    us_entries,       \* scan_procedure_usage: entries, with the usage columns
    in_procedure,     \* scan_procedure_usage: in_procedure
    us_i,             \* index of the next line of the scan loop
    \* ---- batch usage scan (scan_variable_usage.py, main.py) ----
    bt_pc,            \* "setup" | "step7" | "raised" | "step8"
    normalized_files, \* run_pipeline: normalized_files (program names)
    missing,          \* the programs whose .etude or <PGM>_dd.csv is missing
    bt_i,             \* scan_variable_usage: index of the next file of the loop
    outputs,          \* scan_variable_usage: outputs (usage files written)
    usage_outputs,    \* run_pipeline: usage_outputs ("unset" before step 7 returns)
    \* ---- program dictionary (build_program_dd_and_copybooks.py) ----
    pd_pc,            \* "setup" | "loop" | "eof" | "done"
    etude,            \* the lines of the .etude file
    pd_i,             \* index of the next line of the reading loop
    in_data,          \* the DATA DIVISION header has been read
    pd_section,       \* generate_dd_and_copybooks: current_section
    pd_stack,         \* generate_dd_and_copybooks: stack of <<level_int, name, full_path>>
    last_condition_parent,       \* name of the item a level 88 attaches to
    last_condition_parent_path,  \* and its full_path
    current_item_meta,           \* <<level, name>> of the pending item, <<>> for None
    current_item_lines,          \* the text lines of the pending item
    program_rows,     \* the ItemRow list (section, level, name, parent_name, full_path)
    \* ---- program structure (program_structure.py, scan_variable_usage.py) ----
    ps_pc,            \* "setup" | "pass1" | "pass2" | "written" | "done"
    ps_lines,         \* detect_paragraphs_in_etude: lines
    ps_i,             \* index of the next line (pass 1) or raw paragraph (pass 2)
    in_procedure_division,  \* detect_paragraphs_in_etude: in_procedure_division
    raw_paragraphs,   \* list of [name, start_seq]
    last_seq_in_file, \* the last numeric sequence zone read, "NONE" for None
    structure_rows,   \* the rows [proc, deb_proc, fin_proc] of program_structure.csv
    ranges            \* _load_proc_ranges: list of [start, end, paragraph]

ddVars == <<dd_pc, dd_input, current_program, current_section, current_source,
            rules, entries, stack, last_non_88, hi>>

scVars == <<sc_pc, lines, paragraphs, scan, idx_p, entry_points>>

cyVars == <<cy_pc, call_graph, cycles, visited, cy_stack, cy_frames, cy_i>>

nzVars == <<nz_pc, nz_lines, seq_start, nz_seq, out_lines, nz_i, first_out>>

cpVars == <<cp_pc, cp_mode, library, cp_frames, _stack, cp_output, cp_steps, cp_literal>>

gaVars == <<ga_pc, ga_entry, max_len, examples, reachable, unreachable>>

csVars == <<cs_pc, stats, cs_entry, breakdown>>

usVars == <<us_pc, us_lines, us_entries, in_procedure, us_i>>

btVars == <<bt_pc, normalized_files, missing, bt_i, outputs, usage_outputs>>

pdVars == <<pd_pc, etude, pd_i, in_data, pd_section, pd_stack, last_condition_parent,
            last_condition_parent_path, current_item_meta, current_item_lines,
            program_rows>>

psVars == <<ps_pc, ps_lines, ps_i, in_procedure_division, raw_paragraphs,
            last_seq_in_file, structure_rows, ranges>>

vars == <<ddVars, scVars, cyVars, nzVars, cpVars, gaVars, csVars, usVars, btVars, pdVars, psVars>>

\* the variables a component leaves alone
notDict == <<scVars, cyVars, nzVars, cpVars, gaVars, csVars, usVars, btVars, pdVars, psVars>>
notScan == <<ddVars, cyVars, nzVars, cpVars, gaVars, csVars, usVars, btVars, pdVars, psVars>>
notGraph == <<ddVars, scVars, nzVars, cpVars, gaVars, csVars, usVars, btVars, pdVars, psVars>>
notNorm == <<ddVars, scVars, cyVars, cpVars, gaVars, csVars, usVars, btVars, pdVars, psVars>>
notCopy == <<ddVars, scVars, cyVars, nzVars, gaVars, csVars, usVars, btVars, pdVars, psVars>>
notPaths == <<ddVars, scVars, cyVars, nzVars, cpVars, csVars, usVars, btVars, pdVars, psVars>>
notScore == <<ddVars, scVars, cyVars, nzVars, cpVars, gaVars, usVars, btVars, pdVars, psVars>>
notUsage == <<scVars, cyVars, nzVars, cpVars, gaVars, csVars, btVars, pdVars, psVars>>
notBatch == <<ddVars, scVars, cyVars, nzVars, cpVars, gaVars, csVars, usVars, pdVars, psVars>>
notProgramDD == <<ddVars, scVars, cyVars, nzVars, cpVars, gaVars, csVars, usVars, btVars, psVars>>
notStruct == <<ddVars, scVars, cyVars, nzVars, cpVars, gaVars, csVars, usVars, btVars, pdVars>>

(***************************************************************************)
(* Python str methods, on TLA+ strings.                                    *)
(***************************************************************************)
Min(a, b) == IF a <= b THEN a ELSE b
Max(a, b) == IF a >= b THEN a ELSE b

\* s[i] for a 0-based index i ("" when out of range, where Python raises)
At(s, i) == IF i >= 0 /\ i < Len(s) THEN SubSeq(s, i + 1, i + 1) ELSE ""

\* s[a:b] for 0 <= a, 0 <= b
Slice(s, a, b) == SubSeq(s, a + 1, Min(b, Len(s)))

\* s[a:]
SliceFrom(s, a) == SubSeq(s, a + 1, Len(s))

IsSpace(c) == c \in {" ", "\n", "\t"}

UpperLetters == {"A","B","C","D","E","F","G","H","I","J","K","L","M",
                 "N","O","P","Q","R","S","T","U","V","W","X","Y","Z"}
LowerLetters == {"a","b","c","d","e","f","g","h","i","j","k","l","m",
                 "n","o","p","q","r","s","t","u","v","w","x","y","z"}
Digits == {"0","1","2","3","4","5","6","7","8","9"}

IsDigit(c) == c \in Digits
IsAlnum(c) == c \in UpperLetters \cup LowerLetters \cup Digits
\* a regex word character (\w), as \b sees it
IsWordChar(c) == IsAlnum(c) \/ c = "_"

UpperChar(c) ==
    CASE c = "a" -> "A" [] c = "b" -> "B" [] c = "c" -> "C" [] c = "d" -> "D"
      [] c = "e" -> "E" [] c = "f" -> "F" [] c = "g" -> "G" [] c = "h" -> "H"
      [] c = "i" -> "I" [] c = "j" -> "J" [] c = "k" -> "K" [] c = "l" -> "L"
      [] c = "m" -> "M" [] c = "n" -> "N" [] c = "o" -> "O" [] c = "p" -> "P"
      [] c = "q" -> "Q" [] c = "r" -> "R" [] c = "s" -> "S" [] c = "t" -> "T"
      [] c = "u" -> "U" [] c = "v" -> "V" [] c = "w" -> "W" [] c = "x" -> "X"
      [] c = "y" -> "Y" [] c = "z" -> "Z" [] OTHER -> c

RECURSIVE Upper(_)
Upper(s) == IF s = "" THEN "" ELSE UpperChar(Head(s)) \o Upper(Tail(s))

RECURSIVE LStrip(_)
LStrip(s) == IF s # "" /\ IsSpace(Head(s)) THEN LStrip(Tail(s)) ELSE s

RECURSIVE RStrip(_)
RStrip(s) ==
    IF s # "" /\ IsSpace(SubSeq(s, Len(s), Len(s)))
    THEN RStrip(SubSeq(s, 1, Len(s) - 1)) ELSE s

Strip(s) == LStrip(RStrip(s))

\* s.rstrip(c) for a single character c
RECURSIVE RStripChar(_, _)
RStripChar(s, c) ==
    IF s # "" /\ SubSeq(s, Len(s), Len(s)) = c
    THEN RStripChar(SubSeq(s, 1, Len(s) - 1), c) ELSE s

StartsWith(s, p) == Len(s) >= Len(p) /\ SubSeq(s, 1, Len(p)) = p
EndsWith(s, p) == Len(s) >= Len(p) /\ SubSeq(s, Len(s) - Len(p) + 1, Len(s)) = p

\* s.find(sub, from): the 0-based index of the first occurrence at or after
\* from, or -1
RECURSIVE FindFrom(_, _, _)
FindFrom(s, sub, from) ==
    IF from + Len(sub) > Len(s) THEN -1
    ELSE IF SubSeq(s, from + 1, from + Len(sub)) = sub THEN from
    ELSE FindFrom(s, sub, from + 1)

Find(s, sub) == FindFrom(s, sub, 0)

\* sub in s
Contains(s, sub) == Find(s, sub) # -1

\* s.replace(old, new), old non-empty: left to right, non-overlapping
RECURSIVE Replace(_, _, _)
Replace(s, old, new) ==
    LET i == Find(s, old) IN
    IF i = -1 THEN s
    ELSE SubSeq(s, 1, i) \o new \o Replace(SliceFrom(s, i + Len(old)), old, new)

\* the longest prefix of s made of non-blank characters
RECURSIVE TakeWord(_)
TakeWord(s) ==
    IF s = "" \/ IsSpace(Head(s)) THEN "" ELSE Head(s) \o TakeWord(Tail(s))

\* s.split(): the blank-separated tokens
RECURSIVE Split(_)
Split(s) ==
    LET t == LStrip(s) IN
    IF t = "" THEN <<>>
    ELSE LET w == TakeWord(t) IN <<w>> \o Split(SliceFrom(t, Len(w)))

\* s.ljust(n)
RECURSIVE LJust(_, _)
LJust(s, n) == IF Len(s) >= n THEN s ELSE LJust(s \o " ", n)

\* int(s) for a string of decimal digits
DigitVal(c) ==
    CASE c = "0" -> 0 [] c = "1" -> 1 [] c = "2" -> 2 [] c = "3" -> 3
      [] c = "4" -> 4 [] c = "5" -> 5 [] c = "6" -> 6 [] c = "7" -> 7
      [] c = "8" -> 8 [] c = "9" -> 9

RECURSIVE IntOf(_)
IntOf(s) ==
    IF s = "" THEN 0
    ELSE 10 * IntOf(SubSeq(s, 1, Len(s) - 1)) + DigitVal(SubSeq(s, Len(s), Len(s)))

\* the index (1-based) of the first element of seq equal to x, or 0
RECURSIVE IndexOfFrom(_, _, _)
IndexOfFrom(seq, x, i) ==
    IF i > Len(seq) THEN 0
    ELSE IF seq[i] = x THEN i ELSE IndexOfFrom(seq, x, i + 1)

IndexOf(seq, x) == IndexOfFrom(seq, x, 1)

InSeq(seq, x) == \E i \in 1..Len(seq) : seq[i] = x

\* the smallest element of a non-empty set of integers
SetMin(S) == CHOOSE x \in S : \A y \in S : x <= y
SetMax(S) == CHOOSE x \in S : \A y \in S : y <= x

(***************************************************************************)
(* Data dictionary: scripts/data_dictionnary/build_data_dictionary.py      *)
(***************************************************************************)
MaxDeclLines == 3

SectionNames == <<"WORKING-STORAGE", "LINKAGE", "FILE", "LOCAL-STORAGE">>

\* [A-Z0-9\-] under re.IGNORECASE
IsNameChar(c) == IsAlnum(c) \/ c = "-"

\* the longest prefix of s matching [A-Z0-9\-]*
RECURSIVE TakeName(_)
TakeName(s) ==
    IF s = "" \/ ~IsNameChar(Head(s)) THEN "" ELSE Head(s) \o TakeName(Tail(s))

\* extract_code_part: the line from column 7 on
extract_code_part(line) == IF Len(line) <= 6 THEN "" ELSE RStripChar(SliceFrom(line, 6), "\n")

\* PROGRAM_ID_RE matches at 0-based position p of code: the name it captures, or ""
ProgramIdAt(code, p) ==
    LET kw == "PROGRAM-ID"
        a1 == SliceFrom(code, p + Len(kw))
        a2 == IF StartsWith(a1, ".") THEN Tail(a1) ELSE a1
    IN  IF /\ Upper(Slice(code, p, p + Len(kw))) = kw
           /\ (p = 0 \/ ~IsWordChar(At(code, p - 1)))
           /\ a2 # "" /\ IsSpace(Head(a2))
        THEN TakeName(LStrip(a2)) ELSE ""

detect_program_id(code, current) ==
    LET hits == {p \in 0..(Len(code) - 1) : ProgramIdAt(code, p) # ""} IN
    IF hits # {} THEN Upper(ProgramIdAt(code, SetMin(hits))) ELSE current

\* SECTION_RE matches at 0-based position p of code with section name nm
SectionAt(code, p, nm) ==
    LET after == SliceFrom(code, p + Len(nm)) IN
    /\ Upper(Slice(code, p, p + Len(nm))) = nm
    /\ (p = 0 \/ ~IsWordChar(At(code, p - 1)))
    /\ after # "" /\ IsSpace(Head(after))
    /\ StartsWith(Upper(LStrip(after)), "SECTION")

detect_section(code, current) ==
    LET hits == {h \in (0..(Len(code) - 1)) \X (1..Len(SectionNames)) :
                    SectionAt(code, h[1], SectionNames[h[2]])}
        first == SetMin({h[1] : h \in hits})
        which == SetMin({h[2] : h \in {g \in hits : g[1] = first}})
    IN  IF hits # {} THEN SectionNames[which] \o " SECTION" ELSE current

detect_copy_source(code, current) ==
    LET upper == Strip(Upper(code))
        after == SliceFrom(upper, Len("*COPYBOOK"))
        name  == TakeName(LStrip(after))
    IN  IF StartsWith(upper, "*END COPYBOOK") THEN "MAIN"
        ELSE IF /\ StartsWith(upper, "*COPYBOOK")
                /\ after # "" /\ IsSpace(Head(after))
                /\ name # ""
             THEN name
        ELSE current

\* the level strings LEVEL_RE accepts: 01-49, 66, 77, 88
ValidLevel(lv) ==
    /\ Len(lv) = 2
    /\ \/ Head(lv) = "0" /\ Tail(lv) \in Digits \ {"0"}
       \/ Head(lv) \in {"1", "2", "3", "4"} /\ Tail(lv) \in Digits
       \/ lv \in {"66", "77", "88"}

NoDecl == [level |-> "", name |-> ""]

\* parse_data_declaration: LEVEL_RE.match, i.e. level and name (the clause
\* fields pic, usage, occurs, redefines, value do not enter the hierarchy)
parse_data_declaration(code) ==
    LET t    == LStrip(code)
        lv   == SubSeq(t, 1, Min(2, Len(t)))
        rest == SliceFrom(t, 2)
        nm   == TakeName(LStrip(rest))
    IN  IF ValidLevel(lv) /\ rest # "" /\ IsSpace(Head(rest)) /\ nm # ""
        THEN [level |-> lv, name |-> Upper(nm)]
        ELSE NoDecl

should_ignore_entry(entry, rs) ==
    \E i \in 1..Len(rs) :
        LET rule == rs[i] IN
        /\ rule.pattern # ""
        /\ rule.scope \in {"", "ALL"} \/ rule.scope = Upper(Strip(entry.program))
        /\ \/ rule.match_type = "NAME_EXACT" /\ Upper(Strip(entry.name)) = rule.pattern
           \/ rule.match_type = "NAME_PREFIX"
                /\ StartsWith(Upper(Strip(entry.name)), rule.pattern)

\* the lines a .etude may hold, columns 1-6 a sequence number
DeclLevels == {"01", "05", "66", "77", "88"}
DeclNames == {"A", "FILLER"}
DictLines ==
    {"000100 WORKING-STORAGE SECTION.", "000100 LINKAGE SECTION."}
    \cup {"000100     " \o lv \o " " \o nm \o "." : lv \in DeclLevels, nm \in DeclNames}

\* the contents ignore_variables.csv may have
RuleSets ==
    { <<>>,
      <<[scope |-> "ALL", match_type |-> "NAME_EXACT", pattern |-> "A"]>>,
      <<[scope |-> "ALL", match_type |-> "NAME_PREFIX", pattern |-> "FIL"]>> }

InitDictVars ==
    /\ dd_pc = "parse"
    /\ dd_input = <<>>
    /\ current_program = ""
    /\ current_section = ""
    /\ current_source = "MAIN"
    /\ rules = <<>>
    /\ entries = <<>>
    /\ stack = <<>>
    /\ last_non_88 = <<>>
    /\ hi = 1

\* one iteration of the parse loop of build_data_dictionary_for_etude, for a
\* .etude of at most bound lines
ParseLoopIteration(line, bound) ==
    LET code == extract_code_part(line)
        prog == detect_program_id(code, current_program)
        sec  == detect_section(code, current_section)
        src  == detect_copy_source(code, current_source)
        decl == parse_data_declaration(code)
    IN  /\ dd_pc = "parse"
        /\ Len(dd_input) < bound
        /\ dd_input' = Append(dd_input, line)
        /\ IF Strip(code) = ""
           THEN UNCHANGED <<current_program, current_section, current_source, entries>>
           ELSE /\ current_program' = prog
                /\ current_section' = sec
                /\ current_source' = src
                /\ IF StartsWith(LStrip(code), "*") \/ decl = NoDecl
                   THEN UNCHANGED entries
                   ELSE entries' = Append(entries,
                            [level |-> decl.level, name |-> decl.name,
                             program |-> prog, section |-> sec, source |-> src,
                             line_etude |-> Strip(Slice(line, 0, 6)),
                             parent_name |-> "", full_path |-> "",
                             parent_level |-> 0])
        /\ UNCHANGED <<dd_pc, rules, stack, last_non_88, hi>>
        /\ UNCHANGED notDict

ParseLine(line) == ParseLoopIteration(line, MaxDeclLines)

\* the lines of a .etude with expanded copy modules: the sentinels start in
\* column 7, as "000035*END COPYBOOK SRSWFANO"
MaxSourceLines == 4
SourceLines ==
    { "000100*COPYBOOK A", "000200*COPYBOOK B", "000300*END COPYBOOK A",
      "000400*END COPYBOOK B", "000500 01  X." }

ParseSourceLine(line) == ParseLoopIteration(line, MaxSourceLines)

\* end of input: the ignore rules are loaded and applied, and build_hierarchy
\* starts with an empty stack
ApplyIgnoreRules(rs) ==
    LET Keep(e) == ~should_ignore_entry(e, rs)
        kept == IF rs # <<>> THEN SelectSeq(entries, Keep) ELSE entries
    IN  /\ dd_pc = "parse"
        /\ rules' = rs
        /\ entries' = kept
        /\ stack' = <<>>
        /\ last_non_88' = <<>>
        /\ hi' = 1
        /\ dd_pc' = IF kept = <<>> THEN "done" ELSE "build"
        /\ UNCHANGED <<dd_input, current_program, current_section, current_source>>
        /\ UNCHANGED notDict

\* PopLevels with the comparison of the while loop weakened to <
RECURSIVE PopLevelsStrict(_, _)
PopLevelsStrict(stk, lvl) ==
    IF stk # <<>> /\ lvl < stk[Len(stk)][1]
    THEN PopLevelsStrict(SubSeq(stk, 1, Len(stk) - 1), lvl)
    ELSE stk

\* the stack after: while stack and lvl <= stack[-1][0]: stack.pop()
RECURSIVE PopLevels(_, _)
PopLevels(stk, lvl) ==
    IF stk # <<>> /\ lvl <= stk[Len(stk)][1]
    THEN PopLevels(SubSeq(stk, 1, Len(stk) - 1), lvl)
    ELSE stk

\* ConditionParent taking the top of the stack instead of last_non_88
ConditionParentFromStack(last, stk) == IF stk # <<>> THEN stk[Len(stk)] ELSE <<>>

\* the item a level-88 entry attaches to: last_non_88 (<<>> for None)
ConditionParent(last, stk) == last

\* a 66/77 item that leaves the stack as it is
IndependentItemStackKept(stk) == stk

\* the stack after a 66/77 item: stack = []
IndependentItemStack(stk) == <<>>

\* one iteration of the for loop of build_hierarchy. parent_level records
\* the level held by the stack entry taken as parent (0 when there is none).
BuildHierarchyStep ==
    LET e      == entries[hi]
        lvl    == IntOf(e.level)
        name   == e.name
        popped == PopLevels(stack, lvl)
        top    == popped[Len(popped)]
        cp     == ConditionParent(last_non_88, stack)
        path   == IF popped # <<>> THEN top[3] \o "/" \o name ELSE name
        Set(pn, fp, pl) == [entries EXCEPT ![hi].parent_name = pn,
                                           ![hi].full_path = fp,
                                           ![hi].parent_level = pl]
    IN  /\ dd_pc = "build"
        /\ hi <= Len(entries)
        /\ IF lvl = 88
           THEN /\ entries' = IF cp # <<>>
                              THEN Set(cp[2], cp[3] \o "/" \o name, cp[1])
                              ELSE Set("", name, 0)
                /\ UNCHANGED <<stack, last_non_88>>
           ELSE IF lvl \in {66, 77}
           THEN /\ stack' = IndependentItemStack(stack)
                /\ last_non_88' = <<lvl, name, name>>
                /\ entries' = Set("", name, 0)
           ELSE /\ stack' = Append(popped, <<lvl, name, path>>)
                /\ last_non_88' = <<lvl, name, path>>
                /\ entries' = IF popped # <<>> THEN Set(top[2], path, top[1])
                              ELSE Set("", name, 0)
        /\ hi' = hi + 1
        /\ dd_pc' = IF hi = Len(entries) THEN "done" ELSE "build"
        /\ UNCHANGED <<dd_input, current_program, current_section, current_source, rules>>
        /\ UNCHANGED notDict

NextDict ==
    \/ \E line \in DictLines : ParseLine(line)
    \/ \E rs \in RuleSets : ApplyIgnoreRules(rs)
    \/ BuildHierarchyStep


(***************************************************************************)
(* Paragraphs, calls and exits: scripts/analysis/analysis_core.py          *)
(***************************************************************************)
MaxScanLines == 3

\* f"{n:06d}" for 0 <= n
RECURSIVE DigitsOf(_)
DigitsOf(n) ==
    LET d == SubSeq("0123456789", (n % 10) + 1, (n % 10) + 1) IN
    IF n < 10 THEN d ELSE DigitsOf(n \div 10) \o d

RECURSIVE ZFill(_, _)
ZFill(s, w) == IF Len(s) >= w THEN s ELSE ZFill("0" \o s, w)

\* the digits of n without padding
FormatUnpadded(n) == DigitsOf(n)

Format06d(n) == ZFill(DigitsOf(n), 6)

\* one line of _read_etude_lines: padded or cut to 72 columns
ReadEtudeLine72(ln) == IF Len(ln) < 72 THEN LJust(ln, 72) ELSE Slice(ln, 0, 72)

_is_paragraph_line(line) ==
    LET code   == RStrip(Slice(line, 7, 72))
        tokens == Split(code)
        token  == tokens[1]
        name   == SubSeq(token, 1, Len(token) - 1)
        upper  == Upper(name)
    IN  /\ Len(line) >= 8
        /\ At(line, 6) # "*"
        /\ At(line, 7) # " "
        /\ code # ""
        /\ Len(tokens) = 1
        /\ EndsWith(token, ".")
        /\ 1 <= Len(name) /\ Len(name) <= 30
        /\ IsAlnum(Head(upper))
        /\ \A k \in 1..Len(upper) :
              IsAlnum(SubSeq(upper, k, k)) \/ SubSeq(upper, k, k) = "-"

\* _extract_paragraphs over lines[idx..] (idx 0-based), already in_proc or not
RECURSIVE ExtractFrom(_, _, _, _)
ExtractFrom(ls, idx, in_proc, order) ==
    IF idx >= Len(ls) THEN <<>>
    ELSE LET line == ls[idx + 1]
             code == Strip(Slice(line, 7, 72))
         IN  IF StartsWith(Upper(code), "PROCEDURE DIVISION")
             THEN ExtractFrom(ls, idx + 1, TRUE, order)
             ELSE IF ~in_proc THEN ExtractFrom(ls, idx + 1, FALSE, order)
             ELSE IF _is_paragraph_line(line)
             THEN <<[order |-> order, seq |-> Slice(line, 0, 6),
                     name |-> RStripChar(Split(code)[1], "."),
                     start_index |-> idx]>>
                  \o ExtractFrom(ls, idx + 1, TRUE, order + 1)
             ELSE ExtractFrom(ls, idx + 1, TRUE, order)

\* _extract_paragraphs with in_procedure_division set from the first line on
_extract_paragraphs_anywhere(ls) == ExtractFrom(ls, 0, TRUE, 1)

_extract_paragraphs(ls) == ExtractFrom(ls, 0, FALSE, 1)

\* _normalize_target_name without the endswith("-F") test: any two trailing
\* characters are dropped
_normalize_target_name_any_suffix(raw, para_names) ==
    LET base == RStripChar(raw, ".")
        cand == SubSeq(base, 1, Len(base) - 2)
    IN  IF base \in para_names THEN base
        ELSE IF cand \in para_names THEN cand
        ELSE ""

_normalize_target_name(raw, para_names) ==
    LET base == RStripChar(raw, ".")
        cand == SubSeq(base, 1, Len(base) - 2)
    IN  IF base \in para_names THEN base
        ELSE IF EndsWith(base, "-F") /\ cand \in para_names THEN cand
        ELSE ""

\* RE_PROGRAM / RE_TRANSID: kw\(['"]([^'"]+)['"]\) matched at 0-based p; the
\* operand captured, or "" when there is no match at p
RECURSIVE TakeUnquoted(_)
TakeUnquoted(s) ==
    IF s = "" \/ Head(s) \in {"'", "\""} THEN "" ELSE Head(s) \o TakeUnquoted(Tail(s))

OperandAt(code, p, kw) ==
    LET open == SliceFrom(code, p + Len(kw) + 1)
        arg  == TakeUnquoted(IF open = "" THEN "" ELSE Tail(open))
        rest == SliceFrom(open, 1 + Len(arg))
    IN  IF /\ Upper(Slice(code, p, p + Len(kw) + 1)) = kw \o "("
           /\ open # "" /\ Head(open) \in {"'", "\""}
           /\ arg # ""
           /\ rest # "" /\ Head(rest) \in {"'", "\""}
           /\ At(rest, 1) = ")"
        THEN arg ELSE ""

\* m = RE.search(code); m.group(1), or "" when there is no match
SearchOperand(code, kw) ==
    LET hits == {p \in 0..(Len(code) - 1) : OperandAt(code, p, kw) # ""} IN
    IF hits = {} THEN "" ELSE OperandAt(code, SetMin(hits), kw)

\* callers_by_target[target].append(c); a KeyError is swallowed by the
\* enclosing try/except
AppendCaller(cbt, target, c) ==
    IF target \in DOMAIN cbt THEN [cbt EXCEPT ![target] = Append(@, c)] ELSE cbt

\* the body of the inner loop of _scan_calls_and_exits for one line of the
\* span of paragraph p; st holds callers_by_target, exits_by_paragraph and
\* the counters
ScanLine(p, line, st, para_names) ==
    LET seq    == Slice(line, 0, 6)
        code   == RStrip(Slice(line, 7, 72))
        upper  == Upper(code)
        tokens == Split(Replace(code, ".", " "))
        upper_tokens == Split(Replace(upper, ".", " "))
        Call(kind) == [src_paragraph |-> p.name, seq |-> seq, kind |-> kind,
                       line_text |-> code]
        \* GO TO
        idx_to  == IndexOf(upper_tokens, "TO")
        go_hit  == /\ InSeq(upper_tokens, "GO") /\ InSeq(upper_tokens, "TO")
                   /\ idx_to + 1 <= Len(tokens)
        go_tgt  == IF go_hit THEN _normalize_target_name(tokens[idx_to + 1], para_names)
                   ELSE ""
        st1 == IF go_tgt # ""
               THEN [st EXCEPT !.nb_goto = @ + 1,
                               !.callers = AppendCaller(@, go_tgt, Call("GO TO"))]
               ELSE st
        \* PERFORM
        idx_perf == IndexOf(upper_tokens, "PERFORM")
        pf_hit   == InSeq(upper_tokens, "PERFORM") /\ idx_perf + 1 <= Len(tokens)
        pf_tgt   == IF pf_hit THEN _normalize_target_name(tokens[idx_perf + 1], para_names)
                    ELSE ""
        st2 == IF pf_tgt # "" /\ ~StartsWith(Upper(pf_tgt), "SMAD-")
               THEN [st1 EXCEPT !.nb_perform = @ + 1,
                                !.callers = AppendCaller(@, pf_tgt, Call("PERFORM"))]
               ELSE st1
        \* PERFORM ... THRU
        idx_t   == IndexOf(upper_tokens, "THRU")
        th_hit  == /\ pf_hit /\ InSeq(upper_tokens, "THRU")
                   /\ idx_t + 1 <= Len(tokens)
        th_tgt  == IF th_hit THEN _normalize_target_name(tokens[idx_t + 1], para_names)
                   ELSE ""
        st3 == IF th_tgt # "" /\ ~StartsWith(Upper(th_tgt), "SMAD-")
               THEN [st2 EXCEPT !.nb_perform_thru = @ + 1,
                                !.callers = AppendCaller(@, th_tgt, Call("PERFORM THRU"))]
               ELSE st2
        \* exits
        toks == Split(upper)
        Exit(kind, label) == [paragraph |-> p.name, seq |-> seq, kind |-> kind,
                              label |-> label, line_text |-> code]
        AddExit(s, cond, kind, label) ==
            IF cond
            THEN [s EXCEPT !.nb_exit_events = @ + 1,
                           !.exits[p.name] = Append(@, Exit(kind, label))]
            ELSE s
        prog  == SearchOperand(code, "PROGRAM")
        trans == SearchOperand(code, "TRANSID")
        st4 == AddExit(st3, Contains(upper, "EXEC CICS") /\ Contains(upper, "XCTL"),
                       "XCTL", IF prog # "" THEN "XCTL " \o prog ELSE "XCTL")
        st5 == AddExit(st4, Contains(upper, "EXEC CICS") /\ Contains(upper, "RETURN"),
                       "RETURN", IF trans # "" THEN "RETURN " \o trans ELSE "RETURN")
        st6 == AddExit(st5, InSeq(toks, "GOBACK"), "GOBACK", "GOBACK")
        st7 == AddExit(st6, InSeq(toks, "STOP") /\ InSeq(toks, "RUN"),
                       "STOP RUN", "STOP RUN")
    IN  IF code = "" THEN st ELSE st7

\* for i in range(start, end): the lines start..end-1 (0-based) of the span
RECURSIVE ScanSpan(_, _, _, _, _, _)
ScanSpan(p, ls, i, end, st, para_names) ==
    IF i >= end THEN st
    ELSE ScanSpan(p, ls, i + 1, end, ScanLine(p, ls[i + 1], st, para_names), para_names)

\* the code text (from column 7) of the lines a .etude may hold; columns 1-6
\* carry the line's number
ScanTexts ==
    { " PROCEDURE DIVISION.",
      " 100-INIT.",
      " P.",
      "     PERFORM 100-INIT.",
      "     GO TO 100-INIT-F.",
      "     PERFORM P THRU 100-INIT-X",
      "     EXEC CICS XCTL PROGRAM('PGMB') END-EXEC.",
      "     EXEC CICS RETURN TRANSID('TR01') END-EXEC.",
      "     GOBACK.",
      " END-IF.",
      "     STOP RUN" }

InitScanVars ==
    /\ sc_pc = "read"
    /\ lines = <<>>
    /\ paragraphs = <<>>
    /\ scan = [callers |-> <<>>, exits |-> <<>>, nb_goto |-> 0, nb_perform |-> 0,
               nb_perform_thru |-> 0, nb_exit_events |-> 0]
    /\ idx_p = 0
    /\ entry_points = <<>>

\* _read_etude_lines: one more line of the file
ReadEtudeLine(text) ==
    /\ sc_pc = "read"
    /\ Len(lines) < MaxScanLines
    /\ lines' = Append(lines, ReadEtudeLine72(Format06d(Len(lines) + 1) \o text))
    /\ UNCHANGED <<sc_pc, paragraphs, scan, idx_p, entry_points>>
    /\ UNCHANGED notScan

\* _extract_paragraphs, and the dictionaries _scan_calls_and_exits starts from
ExtractParagraphs ==
    LET ps == _extract_paragraphs(lines)
        names == {ps[k].name : k \in 1..Len(ps)}
    IN  /\ sc_pc = "read"
        /\ paragraphs' = ps
        /\ scan' = [scan EXCEPT !.callers = [n \in names |-> <<>>],
                                !.exits = [n \in names |-> <<>>]]
        /\ idx_p' = 0
        /\ sc_pc' = "scan"
        /\ UNCHANGED <<lines, entry_points>>
        /\ UNCHANGED notScan

\* one iteration of: for idx_p, p in enumerate(paragraphs)
ScanParagraph ==
    LET p     == paragraphs[idx_p + 1]
        start == p.start_index + 1
        end   == IF idx_p + 1 < Len(paragraphs)
                 THEN paragraphs[idx_p + 2].start_index ELSE Len(lines)
    IN  /\ sc_pc = "scan"
        /\ idx_p < Len(paragraphs)
        /\ scan' = ScanSpan(p, lines, start, end, scan, DOMAIN scan.callers)
        /\ idx_p' = idx_p + 1
        /\ UNCHANGED <<sc_pc, lines, paragraphs, entry_points>>
        /\ UNCHANGED notScan

\* analyze_program: the entry points
EntryPoints ==
    LET IsEntry(p) == /\ p.name # "" /\ IsDigit(Head(p.name))
                      /\ scan.callers[p.name] = <<>>
        eps == SelectSeq(paragraphs, IsEntry)
    IN  /\ sc_pc = "scan"
        /\ idx_p >= Len(paragraphs)
        /\ entry_points' = [k \in 1..Len(eps) |-> eps[k].name]
        /\ sc_pc' = "done"
        /\ UNCHANGED <<lines, paragraphs, scan, idx_p>>
        /\ UNCHANGED notScan

NextScan ==
    \/ \E text \in ScanTexts : ReadEtudeLine(text)
    \/ ExtractParagraphs
    \/ ScanParagraph
    \/ EntryPoints

(***************************************************************************)
(* Call-graph analytics: report_markdown.py                                *)
(***************************************************************************)
\* the paragraphs of the program, in the order of the keys of call_graph
GraphKeys == <<"A", "B", "C">>
GraphNodes == {GraphKeys[k] : k \in 1..Len(GraphKeys)}

\* the call graphs of the score: a chain of at most MaxChain paragraphs and at
\* most MaxIsolated paragraphs outside it
MaxChain == 8
MaxIsolated == 8
Node(k) == "N" \o ZFill(DigitsOf(k), 2)

\* every paragraph name, in the order sorted() gives
NodeOrder == GraphKeys \o [k \in 1..(MaxChain + MaxIsolated) |-> Node(k)]

\* call_graph.keys(): the paragraphs in the order of the program
CallGraphKeys == SelectSeq(NodeOrder, LAMBDA n : n \in DOMAIN call_graph)

\* "if cycle not in cycles and len(cycles) < 5"
MaxCyclesReported == 5

InitGraphVars ==
    /\ cy_pc = "build"
    /\ call_graph = [n \in GraphNodes |-> {}]
    /\ cycles = <<>>
    /\ visited = {}
    /\ cy_stack = <<>>
    /\ cy_frames = <<>>
    /\ cy_i = 1

\* build_call_graph: a key per paragraph, a set of targets per key
BuildCallGraph(g) ==
    /\ cy_pc = "build"
    /\ call_graph' = g
    /\ cy_pc' = "cycles"
    /\ UNCHANGED <<cycles, visited, cy_stack, cy_frames, cy_i>>
    /\ UNCHANGED notGraph

\* dfs tests "node in visited" before "node in stack"
DfsEnterVisitedFirst(node, stk, vis) ==
    IF node \in vis THEN "seen"
    ELSE IF InSeq(stk, node) THEN "cycle"
    ELSE "descend"

\* the tests at the head of find_cycles.dfs
DfsEnter(node, stk, vis) ==
    IF InSeq(stk, node) THEN "cycle"
    ELSE IF node \in vis THEN "seen"
    ELSE "descend"

\* the effect of calling dfs(node): a cycle is recorded, or the call returns
\* at once, or node is pushed and its successors are to be iterated
CallDfs(node, frames) ==
    LET how   == DfsEnter(node, cy_stack, visited)
        cycle == SubSeq(cy_stack, IndexOf(cy_stack, node), Len(cy_stack)) \o <<node>>
    IN  /\ cycles' = IF /\ how = "cycle"
                        /\ ~InSeq(cycles, cycle)
                        /\ Len(cycles) < MaxCyclesReported
                     THEN Append(cycles, cycle) ELSE cycles
        /\ visited' = IF how = "descend" THEN visited \cup {node} ELSE visited
        /\ cy_stack' = IF how = "descend" THEN Append(cy_stack, node) ELSE cy_stack
        /\ cy_frames' = IF how = "descend"
                        THEN Append(frames, [node |-> node, todo |-> call_graph[node]])
                        ELSE frames

\* for n in call_graph.keys(): if n not in visited: dfs(n)
CyclesRoot ==
    /\ cy_pc = "cycles"
    /\ cy_frames = <<>>
    /\ cy_i <= Len(CallGraphKeys)
    /\ IF CallGraphKeys[cy_i] \notin visited
       THEN CallDfs(CallGraphKeys[cy_i], cy_frames)
       ELSE UNCHANGED <<cycles, visited, cy_stack, cy_frames>>
    /\ cy_i' = cy_i + 1
    /\ UNCHANGED <<cy_pc, call_graph>>
    /\ UNCHANGED notGraph

\* for nxt in call_graph.get(node, []): dfs(nxt) -- a set is iterated in an
\* order the program does not control
CyclesDescend(nxt) ==
    LET top == cy_frames[Len(cy_frames)] IN
    /\ cy_pc = "cycles"
    /\ cy_frames # <<>>
    /\ nxt \in top.todo
    /\ CallDfs(nxt, [cy_frames EXCEPT ![Len(cy_frames)].todo = @ \ {nxt}])
    /\ UNCHANGED <<cy_pc, call_graph, cy_i>>
    /\ UNCHANGED notGraph

\* the for loop of dfs is exhausted: stack.pop() and return
CyclesReturn ==
    /\ cy_pc = "cycles"
    /\ cy_frames # <<>>
    /\ cy_frames[Len(cy_frames)].todo = {}
    /\ cy_stack' = SubSeq(cy_stack, 1, Len(cy_stack) - 1)
    /\ cy_frames' = SubSeq(cy_frames, 1, Len(cy_frames) - 1)
    /\ UNCHANGED <<cy_pc, call_graph, cycles, visited, cy_i>>
    /\ UNCHANGED notGraph

\* return cycles
CyclesFinish ==
    /\ cy_pc = "cycles"
    /\ cy_frames = <<>>
    /\ cy_i > Len(CallGraphKeys)
    /\ cy_pc' = "done"
    /\ UNCHANGED <<call_graph, cycles, visited, cy_stack, cy_frames, cy_i>>
    /\ UNCHANGED notGraph

InitPathVars ==
    /\ ga_pc = "idle"
    /\ ga_entry = <<>>
    /\ max_len = 0
    /\ examples = <<>>
    /\ reachable = {}
    /\ unreachable = <<>>

\* sorted(call_graph.get(current, []))
SortedSucc(current) ==
    LET IsSucc(n) == n \in call_graph[current] IN SelectSeq(NodeOrder, IsSucc)

\* the entry-point lists: paragraphs in the order of the program
EntryLists ==
    {SelectSeq(GraphKeys, LAMBDA n : n \in S) : S \in SUBSET GraphNodes}

\* compute_longest_paths.dfs(current, stack): max_len and examples after the call
RECURSIVE LongestDfs(_, _, _)
LongestDfs(current, stk, acc) ==
    LET st   == Append(stk, current)
        succ == SortedSucc(current)
        l    == Len(st)
        RECURSIVE Over(_, _)
        Over(k, a) == IF k > Len(succ) THEN a
                      ELSE Over(k + 1, LongestDfs(succ[k], st, a))
    IN  IF InSeq(stk, current) THEN acc
        ELSE IF succ = <<>>
        THEN IF l > acc.max_len THEN [max_len |-> l, examples |-> <<st>>]
             ELSE IF l = acc.max_len /\ l > 0 /\ Len(acc.examples) < 5
             THEN [acc EXCEPT !.examples = Append(@, st)]
             ELSE acc
        ELSE Over(1, acc)

\* compute_longest_paths(entry_points, call_graph)
compute_longest_paths(eps) ==
    LET RECURSIVE From(_, _)
        From(k, a) == IF k > Len(eps) THEN a
                      ELSE From(k + 1, LongestDfs(eps[k], <<>>, a))
    IN  From(1, [max_len |-> 0, examples |-> <<>>])

\* only the entry points are collected
ReachDfsShallow(node, seen) == seen \cup {node}

\* compute_reachable_from_entry_points.dfs(node): reachable after the call
RECURSIVE ReachDfs(_, _)
ReachDfs(node, seen) ==
    LET succ == SortedSucc(node)
        RECURSIVE Over(_, _)
        Over(k, a) == IF k > Len(succ) THEN a ELSE Over(k + 1, ReachDfs(succ[k], a))
    IN  IF node \in seen THEN seen ELSE Over(1, seen \cup {node})

compute_reachable_from_entry_points(eps) ==
    LET RECURSIVE From(_, _)
        From(k, a) == IF k > Len(eps) THEN a ELSE From(k + 1, ReachDfs(eps[k], a))
    IN  From(1, {})

\* max_len, examples = compute_longest_paths(analysis.entry_points, call_graph)
LongestPaths(eps) ==
    /\ cy_pc = "done"
    /\ ga_pc = "idle"
    /\ ga_pc' = "paths"
    /\ ga_entry' = eps
    /\ max_len' = compute_longest_paths(eps).max_len
    /\ examples' = compute_longest_paths(eps).examples
    /\ UNCHANGED <<reachable, unreachable>>
    /\ UNCHANGED cyVars
    /\ UNCHANGED notPaths

\* write_risk_analysis, "6. Paragraphes inaccessibles": only with entry points
ReachableFromEntryPoints ==
    /\ ga_pc = "paths"
    /\ ga_pc' = "reach"
    /\ reachable' = IF ga_entry # <<>>
                    THEN compute_reachable_from_entry_points(ga_entry) ELSE reachable
    /\ unreachable' = IF ga_entry # <<>>
                      THEN SelectSeq(CallGraphKeys, LAMBDA n : n \notin reachable')
                      ELSE <<>>
    /\ UNCHANGED <<ga_entry, max_len, examples>>
    /\ UNCHANGED cyVars
    /\ UNCHANGED notPaths

NextCycles ==
    \/ \E g \in [GraphNodes -> SUBSET GraphNodes] : BuildCallGraph(g)
    \/ CyclesRoot
    \/ \E nxt \in GraphNodes : CyclesDescend(nxt)
    \/ CyclesReturn
    \/ CyclesFinish
    \/ \E eps \in EntryLists : LongestPaths(eps)
    \/ ReachableFromEntryPoints

(***************************************************************************)
(* Cleanliness score: report_markdown.py, compute_cleanliness_score        *)
(***************************************************************************)
\* a chain N01 -> ... of c paragraphs followed by i paragraphs outside it; the
\* last of the chain calls the first (loop = "chain"), or the first paragraph
\* outside the chain calls itself (loop = "isolated")
ScoreGraph(c, i, loop) ==
    [n \in {Node(k) : k \in 1..(c + i)} |->
        LET k == CHOOSE j \in 1..(c + i) : Node(j) = n
        IN  IF k < c THEN {Node(k + 1)}
            ELSE IF k = c /\ loop = "chain" THEN {Node(1)}
            ELSE IF k = c + 1 /\ loop = "isolated" THEN {n}
            ELSE {}]

ScoreGraphs ==
    {ScoreGraph(c, i, loop) :
        c \in 0..MaxChain, i \in 0..MaxIsolated, loop \in {"none", "chain", "isolated"}}

GotoCounts == {0, 1, 15, 16}

\* nb_variables_declared, nb_variables_unused
VariableCounts == {<<0, 0>>, <<3, 1>>, <<3, 3>>, <<6, 0>>, <<7, 3>>}

\* int(ratio_dead * 0.3) for ratio_dead = nb_unused / nb_decl * 100.0: the
\* product 30 * nb_unused / nb_decl is computed in floating point, so when it
\* is a whole number q the result of int() is q or, after a rounding below
\* q, q - 1
DeadRatioPoints(nb_decl, nb_unused) ==
    LET q == (30 * nb_unused) \div nb_decl IN
    IF nb_decl <= 0 THEN {0}
    ELSE IF (30 * nb_unused) % nb_decl = 0 /\ q > 0 THEN {q - 1, q}
    ELSE {q}

InitScoreVars ==
    /\ cs_pc = "idle"
    /\ stats = [nb_goto |-> 0, nb_variables_declared |-> 0,
                nb_variables_unused |-> 0, nb_paragraphs |-> 0]
    /\ cs_entry = <<>>
    /\ breakdown = [score |-> 100]

\* the penalty of the GO TO statements without its ceiling
PenaltyGotoUncapped(nb_goto) == nb_goto * 2

\* penalty_goto = min(30, nb_goto * 2)
PenaltyGoto(nb_goto) == Min(30, nb_goto * 2)

\* compute_cleanliness_score(analysis, call_graph), given find_cycles(call_graph)
\* and the value of int(ratio_dead * 0.3)
compute_cleanliness_score(s, eps, found, dead_points) ==
    LET penalty_goto     == PenaltyGoto(s.nb_goto)
        penalty_deadvars == Min(25, dead_points)
        penalty_cycles   == IF found # <<>> THEN 15 ELSE 0
        ml               == compute_longest_paths(eps).max_len
        penalty_depth    == IF eps = <<>> THEN 0
                            ELSE IF ml >= 8 THEN 10
                            ELSE IF ml >= 6 THEN 5
                            ELSE 0
        nb_unreachable   == IF eps # <<>> /\ s.nb_paragraphs > 0
                            THEN Len(SelectSeq(CallGraphKeys,
                                     LAMBDA n : n \notin compute_reachable_from_entry_points(eps)))
                            ELSE 0
        penalty_unreachable == IF eps # <<>> /\ s.nb_paragraphs > 0
                               THEN Min(15, nb_unreachable * 2) ELSE 0
        total_penalty == penalty_goto + penalty_deadvars + penalty_cycles
                         + penalty_depth + penalty_unreachable
        score == Max(0, 100 - total_penalty)
    IN  [score |-> score,
         label |-> IF score >= 80 THEN "Tres bon"
                   ELSE IF score >= 60 THEN "Correct"
                   ELSE IF score >= 40 THEN "A surveiller"
                   ELSE "Critique",
         penalty_goto |-> penalty_goto,
         penalty_deadvars |-> penalty_deadvars,
         penalty_cycles |-> penalty_cycles,
         penalty_depth |-> penalty_depth,
         penalty_unreachable |-> penalty_unreachable,
         nb_unreachable |-> nb_unreachable,
         has_cycles |-> found # <<>>]

\* compute_cleanliness_score of generate_global_synthesis.py, which returns the
\* score alone; its find_cycles and compute_longest_paths are those of
\* report_markdown.py
compute_cleanliness_score_synthesis(s, eps, found, dead_points) ==
    LET penalty_goto     == Min(30, s.nb_goto * 2)
        penalty_deadvars == Min(25, dead_points)
        penalty_cycles   == IF found # <<>> THEN 15 ELSE 0
        ml               == compute_longest_paths(eps).max_len
        penalty_depth    == IF eps = <<>> THEN 0
                            ELSE IF ml >= 8 THEN 10
                            ELSE IF ml >= 6 THEN 5
                            ELSE 0
        penalty_unreachable == 0
        total_penalty == penalty_goto + penalty_deadvars + penalty_cycles
                         + penalty_depth + penalty_unreachable
    IN  Max(0, 100 - total_penalty)

\* cleanliness = compute_cleanliness_score(analysis, call_graph)
ComputeScore(nb_goto, counts, eps, dead_points) ==
    LET s == [nb_goto |-> nb_goto, nb_variables_declared |-> counts[1],
              nb_variables_unused |-> counts[2],
              nb_paragraphs |-> Len(CallGraphKeys)]
    IN  /\ cy_pc = "done"
        /\ cs_pc = "idle"
        /\ dead_points \in DeadRatioPoints(counts[1], counts[2])
        /\ \A k \in 1..Len(eps) : eps[k] \in DOMAIN call_graph
        /\ cs_pc' = "done"
        /\ stats' = s
        /\ cs_entry' = eps
        /\ breakdown' = compute_cleanliness_score(s, eps, cycles, dead_points)
        /\ UNCHANGED cyVars
        /\ UNCHANGED notScore

NextScore ==
    \/ \E g \in ScoreGraphs : BuildCallGraph(g)
    \/ CyclesRoot
    \/ \E nxt \in {NodeOrder[k] : k \in 1..Len(NodeOrder)} : CyclesDescend(nxt)
    \/ CyclesReturn
    \/ CyclesFinish
    \/ \E nb_goto \in GotoCounts, counts \in VariableCounts,
          eps \in {<<>>, <<Node(1)>>}, dead_points \in 0..30 :
            ComputeScore(nb_goto, counts, eps, dead_points)

(***************************************************************************)
(* Line normalizer: scripts/pipeline/normalize_file.py                     *)
(***************************************************************************)
MaxNormLines == 2

\* "if seq > 999999: break"
MaxSeq == 999999

_is_copy_sentinel(line80) ==
    IF Len(line80) < 7 THEN FALSE
    ELSE IF At(line80, 6) # "*" THEN FALSE
    ELSE LET chunk == Upper(Strip(Slice(line80, 6, 72)))
         IN  StartsWith(chunk, "*COPYBOOK ") \/ StartsWith(chunk, "*END COPYBOOK")

\* raw lines as readlines() returns them
NormTexts ==
    { "000100 MOVE A TO B.\n",
      "      *COPYBOOK CPY1\n",
      "      *END COPYBOOK CPY1\n",
      "      * NOTE\n",
      "//STEP1 EXEC PGM=X\n",
      "       SMASH-TRACE\n",
      "000400 SMASH-TRACE\n",
      "\n",
      LJust("000200     DISPLAY 'X'", 72) \o "IDENT123 BEYOND 80\n",
      "000300-    'CONT'" }

\* the start values of the renumbering
SeqStarts == {1, MaxSeq - 1, MaxSeq, MaxSeq + 1}

InitNormVars ==
    /\ nz_pc = "read"
    /\ nz_lines = <<>>
    /\ seq_start = 1
    /\ nz_seq = 1
    /\ out_lines = <<>>
    /\ nz_i = 1
    /\ first_out = <<>>

\* lines = fin.readlines()
NormReadLine(raw) ==
    /\ nz_pc = "read"
    /\ Len(nz_lines) < MaxNormLines
    /\ nz_lines' = Append(nz_lines, raw)
    /\ UNCHANGED <<nz_pc, seq_start, nz_seq, out_lines, nz_i, first_out>>
    /\ UNCHANGED notNorm

\* out_lines = []; seq = seq_start
NormBegin(s) ==
    /\ nz_pc = "read"
    /\ nz_pc' = "run1"
    /\ seq_start' = s
    /\ nz_seq' = s
    /\ out_lines' = <<>>
    /\ nz_i' = 1
    /\ UNCHANGED <<nz_lines, first_out>>
    /\ UNCHANGED notNorm

\* one iteration of "for raw in lines", break included
NormalizeLine ==
    LET raw_line  == RStripChar(nz_lines[nz_i], "\n")
        line      == IF Len(raw_line) < 80 THEN LJust(raw_line, 80)
                     ELSE Slice(raw_line, 0, 80)
        indicator == IF Len(line) > 6 THEN At(line, 6) ELSE " "
        dropped   == \/ StartsWith(LStrip(raw_line), "SMASH")
                     \/ StartsWith(line, "//")
                     \/ (indicator = "*" /\ ~_is_copy_sentinel(line))
                     \/ Strip(Slice(line, 7, 72)) = ""
        new_line  == Format06d(nz_seq) \o Slice(line, 6, 72) \o "        " \o "\n"
    IN  /\ nz_pc \in {"run1", "run2"}
        /\ nz_i <= Len(nz_lines)
        /\ IF dropped
           THEN /\ UNCHANGED <<out_lines, nz_seq>>
                /\ nz_i' = nz_i + 1
           ELSE /\ out_lines' = Append(out_lines, new_line)
                /\ nz_seq' = nz_seq + 1
                /\ nz_i' = IF nz_seq + 1 > MaxSeq THEN Len(nz_lines) + 1 ELSE nz_i + 1
        /\ UNCHANGED <<nz_pc, nz_lines, seq_start, first_out>>
        /\ UNCHANGED notNorm

\* fout.writelines(out_lines); return output_file
NormWrite ==
    /\ nz_pc \in {"run1", "run2"}
    /\ nz_i > Len(nz_lines)
    /\ nz_pc' = IF nz_pc = "run1" THEN "written" ELSE "done"
    /\ first_out' = IF nz_pc = "run1" THEN out_lines ELSE first_out
    /\ UNCHANGED <<nz_lines, seq_start, nz_seq, out_lines, nz_i>>
    /\ UNCHANGED notNorm

\* normalize_file again, on the file just written, with the same seq_start
NormRerun ==
    /\ nz_pc = "written"
    /\ nz_pc' = "run2"
    /\ nz_lines' = first_out
    /\ nz_seq' = seq_start
    /\ out_lines' = <<>>
    /\ nz_i' = 1
    /\ UNCHANGED <<seq_start, first_out>>
    /\ UNCHANGED notNorm

NextNorm ==
    \/ \E raw \in NormTexts : NormReadLine(raw)
    \/ \E s \in SeqStarts : NormBegin(s)
    \/ NormalizeLine
    \/ NormWrite
    \/ NormRerun

(***************************************************************************)
(* COPY expansion: scripts/pipeline/copy_expander.py (expand_copybooks)    *)
(* and scripts/archive/copy_expander.py (expand_copies_in_text)            *)
(***************************************************************************)
MaxLibLines == 3

\* the depth of calls the interpreter allows before it raises RecursionError
RecursionLimit == 4

\* the copy modules found in the copybook directory
ModuleNames == {"A", "B"}

ModuleLineTexts ==
    { "       COPY A.\n",
      "       COPY B.\n",
      "           MOVE ==OLD== TO X.\n",
      "           05 T OCCURS 9 :DEPENDING ON N:.\n" }

ProgramTexts ==
    { <<"       COPY A.\n">>,
      <<"       COPY A REPLACING ==OLD== BY ==NEW==.\n">>,
      <<"       COPY C.\n", "           MOVE OLD TO X.\n">>,
      <<"       COPY B\n", "           REPLACING ==OLD== BY ==NEW==.\n">>,
      <<"       COPY A REPLACING ==A== BY ==B==.\n">>,
      <<"       COPY B REPLACING ==A== BY ==C==.\n">> }

_sentinel_start(copyname) == "      *COPYBOOK " \o copyname \o "\n"
_sentinel_end(copyname) == "      *END COPYBOOK " \o copyname \o "\n"

\* "".join(lines)
RECURSIVE JoinLines(_)
JoinLines(ls) == IF ls = <<>> THEN "" ELSE Head(ls) \o JoinLines(Tail(ls))

\* text.splitlines(keepends)
RECURSIVE SplitLines(_, _)
SplitLines(text, keepends) ==
    LET i == Find(text, "\n") IN
    IF text = "" THEN <<>>
    ELSE IF i = -1 THEN <<text>>
    ELSE <<Slice(text, 0, IF keepends THEN i + 1 ELSE i)>>
         \o SplitLines(SliceFrom(text, i + 1), keepends)

\* RE_COPY.match(raw.strip()): the name captured, upper-cased, or "" when the
\* line is not "COPY name ."
CopyNameOfLine(raw) ==
    LET u     == Upper(Strip(raw))
        rest  == LStrip(SliceFrom(u, 4))
        nm    == TakeName(rest)
        after == LStrip(SliceFrom(rest, Len(nm)))
    IN  IF StartsWith(u, "COPY") /\ IsSpace(At(u, 4)) /\ nm # "" /\ after = "."
        THEN nm ELSE ""

\* raw if raw.endswith("\n") else raw + "\n"
WithNewline(raw) == IF EndsWith(raw, "\n") THEN raw ELSE raw \o "\n"

\* _COPY_WORD_RE.search(s): the word COPY, in any case
HasCopyWord(s) ==
    LET u == Upper(s) IN
    \E p \in 0..(Len(s) - 4) :
        /\ Slice(u, p, p + 4) = "COPY"
        /\ ~IsWordChar(At(s, p - 1))
        /\ ~IsWordChar(At(s, p + 4))

_is_comment_line(line) ==
    LET stripped == LStrip(line) IN
    IF stripped = "" THEN FALSE ELSE Head(stripped) = "*"

\* _collect_copy_statement: the number of lines collected from index i (1-based)
RECURSIVE CollectCount(_, _)
CollectCount(ls, i) ==
    IF i > Len(ls) THEN 0
    ELSE IF Contains(ls[i], ".") THEN 1
    ELSE 1 + CollectCount(ls, i + 1)

\* " ".join(l.rstrip("\n").rstrip() for l in stmt_lines)
RECURSIVE StmtText(_)
StmtText(stmt_lines) ==
    IF stmt_lines = <<>> THEN ""
    ELSE RStrip(RStripChar(Head(stmt_lines), "\n"))
         \o (IF Len(stmt_lines) > 1 THEN " " ELSE "")
         \o StmtText(Tail(stmt_lines))

\* the name of the copybook of a COPY statement, "" for None
_extract_copybook_name(copy_stmt) ==
    LET tokens == Split(Strip(copy_stmt))
        hits   == {k \in 1..Len(tokens) : Upper(tokens[k]) = "COPY"}
        idx    == SetMin(hits)
        first  == tokens[idx + 1]
        candidate == IF Upper(first) \in {"IN", "OF"} /\ idx + 2 <= Len(tokens)
                     THEN tokens[idx + 2] ELSE first
    IN  IF hits = {} THEN ""
        ELSE IF idx + 1 > Len(tokens) THEN ""
        ELSE RStripChar(candidate, ".")

\* the first index at or after i of a character that is not white space
RECURSIVE SkipSpaces(_, _)
SkipSpaces(s, i) == IF IsSpace(At(s, i)) THEN SkipSpaces(s, i + 1) ELSE i

\* "==\s+BY\s+==" matched at q: the index after it, or -1
ByAt(s, q) ==
    LET b == SkipSpaces(s, q + 2)
        e == SkipSpaces(s, b + 2)
    IN  IF /\ Slice(s, q, q + 2) = "=="
           /\ b > q + 2
           /\ Upper(Slice(s, b, b + 2)) = "BY"
           /\ e > b + 2
           /\ Slice(s, e, e + 2) = "=="
        THEN e + 2 ELSE -1

\* the ends q of the old text of a match of _PSEUDOTEXT_PAIR_RE that starts at p
PairEnds(s, p) ==
    {q \in (p + 2)..Len(s) : ByAt(s, q) # -1 /\ FindFrom(s, "==", ByAt(s, q)) # -1}

\* the pairs _PSEUDOTEXT_PAIR_RE finds in tail, searching from pos
RECURSIVE PairsFrom(_, _)
PairsFrom(tail, pos) ==
    LET starts == {p \in pos..Len(tail) :
                       Slice(tail, p, p + 2) = "==" /\ PairEnds(tail, p) # {}}
        p == SetMin(starts)
        q == SetMin(PairEnds(tail, p))
        n == ByAt(tail, q)
        r == FindFrom(tail, "==", n)
    IN  IF starts = {} THEN <<>>
        ELSE << <<Slice(tail, p + 2, q), Slice(tail, n, r)>> >> \o PairsFrom(tail, r + 2)

extract_replacing_pairs(copy_statement) ==
    LET idx == Find(Upper(copy_statement), "REPLACING") IN
    IF idx = -1 THEN <<>>
    ELSE PairsFrom(SliceFrom(copy_statement, idx + Len("REPLACING")), 0)

\* the longest prefix of s matching [A-Z0-9\-]* (upper case only)
RECURSIVE TakeUpperName(_)
TakeUpperName(s) ==
    IF s = "" \/ Head(s) \notin (UpperLetters \cup Digits \cup {"-"}) THEN ""
    ELSE Head(s) \o TakeUpperName(Tail(s))

\* re.sub(r":DEPENDING ON [A-Z0-9\-]+:", " ", text)
RECURSIVE RemoveDependingOn(_)
RemoveDependingOn(text) ==
    LET kw == ":DEPENDING ON "
        i  == Find(text, kw)
        nm == TakeUpperName(SliceFrom(text, i + Len(kw)))
        j  == i + Len(kw) + Len(nm)
    IN  IF i = -1 THEN text
        ELSE IF nm # "" /\ At(text, j) = ":"
        THEN Slice(text, 0, i) \o " " \o RemoveDependingOn(SliceFrom(text, j + 1))
        ELSE Slice(text, 0, i + 1) \o RemoveDependingOn(SliceFrom(text, i + 1))

\* "for old, new in pairs: text = text.replace(old, new)", empty old skipped
RECURSIVE ReplaceAll(_, _)
ReplaceAll(text, pairs) ==
    IF pairs = <<>> THEN text
    ELSE ReplaceAll(IF Head(pairs)[1] = "" THEN text
                    ELSE Replace(text, Head(pairs)[1], Head(pairs)[2]),
                    Tail(pairs))

\* the pairs are applied with their pseudo-text delimiters
apply_replacing_delimited(text, pairs) ==
    RemoveDependingOn(
        ReplaceAll(text, [k \in 1..Len(pairs) |->
                             <<"==" \o pairs[k][1] \o "==", pairs[k][2]>>]))

apply_replacing(text, pairs) == RemoveDependingOn(ReplaceAll(text, pairs))

InitCopyVars ==
    /\ cp_pc = "setup"
    /\ cp_mode = "pipeline"
    /\ library = [m \in ModuleNames |-> <<>>]
    /\ cp_frames = <<>>
    /\ _stack = {}
    /\ cp_output = <<>>
    /\ cp_steps = 0
    /\ cp_literal = {}

\* a call that starts with an empty seen_copybooks
CallSeenNothing(name, ls, seen) ==
    [name |-> name, lines |-> ls, i |-> 1, out |-> <<>>, seen |-> {},
     stmt |-> "", next_i |-> 1]

\* one call of expand_copybooks / expand_copies_in_text: the module it expands
\* ("" for the program), its lines, the index of the next line, the lines put
\* out so far, seen_copybooks, and the COPY statement whose expansion is pending
Call(name, ls, seen) ==
    [name |-> name, lines |-> ls, i |-> 1, out |-> <<>>, seen |-> seen,
     stmt |-> "", next_i |-> 1]

\* the copybook directory holds one more line of module name
CopyWriteModule(name, line) ==
    /\ cp_pc = "setup"
    /\ Len(library["A"]) + Len(library["B"]) < MaxLibLines
    /\ library' = [library EXCEPT ![name] = Append(@, line)]
    /\ UNCHANGED <<cp_pc, cp_mode, cp_frames, _stack, cp_output, cp_steps, cp_literal>>
    /\ UNCHANGED notCopy

\* expand_copybooks(lines, copybooks_dir) is called on the lines of a program
CopyBegin(mode, prog) ==
    /\ cp_pc = "setup"
    /\ cp_pc' = "run"
    /\ cp_mode' = mode
    /\ cp_frames' = <<Call("", prog, {})>>
    /\ _stack' = {}
    /\ UNCHANGED <<library, cp_output, cp_steps, cp_literal>>
    /\ UNCHANGED notCopy

\* the anti-loop test is never true
LoopDetectedNever(copyname, stk) == FALSE

\* "if copyname in _stack"
LoopDetected(copyname, stk) == copyname \in stk

\* pipeline: one iteration of "for raw in lines", up to the recursive call
ExpandCopybooksLine ==
    LET d        == Len(cp_frames)
        f        == cp_frames[d]
        raw      == f.lines[f.i]
        copyname == CopyNameOfLine(raw)
    IN  /\ cp_pc = "run"
        /\ cp_mode = "pipeline"
        /\ f.i <= Len(f.lines)
        /\ IF \/ copyname = ""
              \/ LoopDetected(copyname, _stack)
              \/ copyname \notin ModuleNames
           THEN /\ cp_frames' = [cp_frames EXCEPT ![d].out = Append(@, WithNewline(raw)),
                                                  ![d].i = @ + 1]
                /\ UNCHANGED <<cp_pc, _stack>>
           ELSE IF d >= RecursionLimit
           THEN /\ cp_pc' = "raised"
                /\ UNCHANGED <<cp_frames, _stack>>
           ELSE /\ cp_frames' =
                      Append([cp_frames EXCEPT ![d].out = Append(@, _sentinel_start(copyname))],
                             Call(copyname, library[copyname], {}))
                /\ _stack' = _stack \cup {copyname}
                /\ UNCHANGED cp_pc
        /\ cp_literal' = IF copyname # "" /\ (copyname \in _stack \/ copyname \notin ModuleNames)
                         THEN cp_literal \cup {[name |-> copyname, lines |-> <<raw>>]}
                         ELSE cp_literal
        /\ cp_steps' = cp_steps + 1
        /\ UNCHANGED <<cp_mode, library, cp_output>>
        /\ UNCHANGED notCopy

\* pipeline: the recursive call returns its lines to the caller
ExpandCopybooksReturn ==
    LET d == Len(cp_frames)
        f == cp_frames[d]
    IN  /\ cp_pc = "run"
        /\ cp_mode = "pipeline"
        /\ d >= 2
        /\ f.i > Len(f.lines)
        /\ cp_frames' = [SubSeq(cp_frames, 1, d - 1) EXCEPT
                            ![d - 1].out = @ \o f.out \o <<_sentinel_end(f.name)>>,
                            ![d - 1].i = @ + 1]
        /\ _stack' = _stack \ {f.name}
        /\ cp_steps' = cp_steps + 1
        /\ UNCHANGED <<cp_pc, cp_mode, library, cp_output, cp_literal>>
        /\ UNCHANGED notCopy

\* archive: one iteration of "while i < len(lines)", up to the recursive call
ExpandCopiesLine ==
    LET d          == Len(cp_frames)
        f          == cp_frames[d]
        line       == f.lines[f.i]
        n          == CollectCount(f.lines, f.i)
        stmt_lines == SubSeq(f.lines, f.i, f.i + n - 1)
        stmt_text  == StmtText(stmt_lines)
        copybook_name == _extract_copybook_name(stmt_text)
        NotSmash(l) == ~StartsWith(LStrip(l), "SMASH")
        Continue(put, next) ==
            /\ cp_frames' = [cp_frames EXCEPT ![d].out = @ \o put, ![d].i = next]
            /\ UNCHANGED cp_pc
    IN  /\ cp_pc = "run"
        /\ cp_mode = "archive"
        /\ f.i <= Len(f.lines)
        /\ IF _is_comment_line(line) \/ ~HasCopyWord(line)
           THEN Continue(<<line>>, f.i + 1)
           ELSE IF ~HasCopyWord(stmt_text) \/ copybook_name = ""
           THEN Continue(stmt_lines, f.i + n)
           ELSE IF StartsWith(Upper(copybook_name), "SMASH")
           THEN Continue(<<>>, f.i + n)
           ELSE IF copybook_name \in f.seen \/ copybook_name \notin ModuleNames
           THEN Continue(stmt_lines, f.i + n)
           ELSE IF d >= RecursionLimit
           THEN cp_pc' = "raised" /\ UNCHANGED cp_frames
           ELSE /\ cp_frames' =
                      Append([cp_frames EXCEPT ![d].stmt = stmt_text, ![d].next_i = f.i + n],
                             Call(copybook_name,
                                  SplitLines(JoinLines(SelectSeq(library[copybook_name], NotSmash)), TRUE),
                                  f.seen \cup {copybook_name}))
                /\ UNCHANGED cp_pc
        /\ cp_literal' = IF /\ ~_is_comment_line(line) /\ HasCopyWord(line)
                            /\ HasCopyWord(stmt_text) /\ copybook_name # ""
                            /\ (copybook_name \in f.seen \/ copybook_name \notin ModuleNames)
                         THEN cp_literal \cup {[name |-> copybook_name, lines |-> stmt_lines]}
                         ELSE cp_literal
        /\ cp_steps' = cp_steps + 1
        /\ UNCHANGED <<cp_mode, library, _stack, cp_output>>
        /\ UNCHANGED notCopy

\* archive: the recursive call returns its text; REPLACING and the sentinels
ExpandCopiesReturn ==
    LET d     == Len(cp_frames)
        f     == cp_frames[d]
        c     == cp_frames[d - 1]
        pairs == extract_replacing_pairs(c.stmt)
        expanded_copy == IF pairs # <<>> THEN apply_replacing(JoinLines(f.out), pairs)
                         ELSE JoinLines(f.out)
        body  == SplitLines(expanded_copy, FALSE)
    IN  /\ cp_pc = "run"
        /\ cp_mode = "archive"
        /\ d >= 2
        /\ f.i > Len(f.lines)
        /\ cp_frames' = [SubSeq(cp_frames, 1, d - 1) EXCEPT
                            ![d - 1].out = @ \o <<_sentinel_start(f.name)>>
                                             \o [k \in 1..Len(body) |-> body[k] \o "\n"]
                                             \o <<_sentinel_end(f.name)>>,
                            ![d - 1].i = c.next_i]
        /\ cp_steps' = cp_steps + 1
        /\ UNCHANGED <<cp_pc, cp_mode, library, _stack, cp_output, cp_literal>>
        /\ UNCHANGED notCopy

\* the outermost call returns the expanded lines
CopyFinish ==
    /\ cp_pc = "run"
    /\ Len(cp_frames) = 1
    /\ cp_frames[1].i > Len(cp_frames[1].lines)
    /\ cp_pc' = "done"
    /\ cp_output' = IF cp_mode = "archive"
                    THEN SplitLines(JoinLines(cp_frames[1].out), TRUE)
                    ELSE cp_frames[1].out
    /\ cp_steps' = cp_steps + 1
    /\ UNCHANGED <<cp_mode, library, cp_frames, _stack, cp_literal>>
    /\ UNCHANGED notCopy

NextCopy ==
    \/ \E name \in ModuleNames, line \in ModuleLineTexts : CopyWriteModule(name, line)
    \/ \E mode \in {"pipeline", "archive"}, prog \in ProgramTexts : CopyBegin(mode, prog)
    \/ ExpandCopybooksLine
    \/ ExpandCopybooksReturn
    \/ ExpandCopiesLine
    \/ ExpandCopiesReturn
    \/ CopyFinish

(***************************************************************************)
(* Variable usage: scan_variable_usage.py                                  *)
(***************************************************************************)
MaxProcLines == 2

\* the declarations of the .etude whose dictionary is scanned
UsageDictLines ==
    {"000100     " \o lv \o " " \o nm \o "." : lv \in {"01", "05"}, nm \in DeclNames}

\* the lines that may follow them, columns 1-6 a sequence number or blank
ProcLines ==
    { "000900 PROCEDURE DIVISION.",
      "001000     MOVE 1 TO A.",
      "001100     move 2 to a-b.",
      "001200*    MOVE 1 TO A.",
      "           MOVE A TO A." }

RECURSIVE ProcTextsOf(_)
ProcTextsOf(n) ==
    IF n = 0 THEN {<<>>}
    ELSE ProcTextsOf(n - 1)
         \cup {Append(t, l) : t \in {u \in ProcTextsOf(n - 1) : Len(u) = n - 1}, l \in ProcLines}

ProcTexts == ProcTextsOf(MaxProcLines)

InitUsageVars ==
    /\ us_pc = "idle"
    /\ us_lines = <<>>
    /\ us_entries = <<>>
    /\ in_procedure = FALSE
    /\ us_i = 1

\* build_name_patterns: (?<![A-Z0-9-])NAME(?![A-Z0-9-]) under re.IGNORECASE
\* has a match in code
PatternSearch(name, code) ==
    \E p \in 0..(Len(code) - Len(name)) :
        /\ Upper(Slice(code, p, p + Len(name))) = name
        /\ ~IsNameChar(At(code, p - 1))
        /\ ~IsNameChar(At(code, p + Len(name)))

\* entries = load_dictionary(dict_csv) and the start of scan_procedure_usage:
\* the usage columns are initialised and the .etude is read
UsageBegin(proc) ==
    /\ dd_pc = "done"
    /\ us_pc = "idle"
    /\ us_entries' = [k \in DOMAIN entries |->
                        [name |-> entries[k].name, full_path |-> entries[k].full_path,
                         used_direct |-> "N", used |-> "N",
                         usage_count |-> "0", first_usage_line |-> ""]]
    /\ us_lines' = dd_input \o proc
    /\ in_procedure' = FALSE
    /\ us_i' = 1
    /\ us_pc' = "scan"
    /\ UNCHANGED ddVars
    /\ UNCHANGED notUsage

\* one iteration of: for raw in lines
UsageScanLine ==
    LET raw      == us_lines[us_i]
        code     == extract_code_part(raw)
        blank    == Strip(code) = ""
        inproc   == in_procedure \/ (~blank /\ Contains(Upper(code), "PROCEDURE DIVISION"))
        scanned  == ~blank /\ inproc /\ ~StartsWith(LStrip(code), "*")
        line_num == Strip(Slice(raw, 0, 6))
        Seen(e)  == LET name == Strip(Upper(e.name)) IN
                    scanned /\ name # "" /\ PatternSearch(name, code)
    IN  /\ us_pc = "scan"
        /\ us_i <= Len(us_lines)
        /\ in_procedure' = inproc
        /\ us_entries' = [k \in DOMAIN us_entries |->
                LET e == us_entries[k] IN
                IF Seen(e)
                THEN [e EXCEPT !.usage_count = DigitsOf(IntOf(@) + 1),
                               !.used_direct = "Y",
                               !.first_usage_line =
                                    IF e.used_direct # "Y" /\ line_num # ""
                                    THEN line_num ELSE @]
                ELSE e]
        /\ us_i' = us_i + 1
        /\ UNCHANGED <<us_pc, us_lines>>
        /\ UNCHANGED ddVars
        /\ UNCHANGED notUsage

\* the full_path prefixes of fp, fp itself excluded: "/".join(parts[:-1]), ...
ParentPaths(fp) ==
    {Slice(fp, 0, p) : p \in {q \in 0..(Len(fp) - 1) : At(fp, q) = "/"}}

\* entries_by_full_path.get(fp): the index of the last entry with that
\* full_path, 0 for None
entries_by_full_path(es, fp) ==
    LET same == {k \in DOMAIN es : es[k].full_path = fp} IN
    IF fp = "" \/ same = {} THEN 0 ELSE SetMax(same)

\* the entries after the two propagation loops
Propagate(es) ==
    LET marked == {entries_by_full_path(es, pfp) :
                     pfp \in UNION {ParentPaths(es[k].full_path) :
                                      k \in {j \in DOMAIN es : es[j].used_direct = "Y"}}}
    IN  [k \in DOMAIN es |->
            IF es[k].used_direct = "Y" \/ k \in marked
            THEN [es[k] EXCEPT !.used = "Y"] ELSE es[k]]

\* the end of the scan loop and the propagation to the parents
UsagePropagate ==
    /\ us_pc = "scan"
    /\ us_i > Len(us_lines)
    /\ us_entries' = Propagate(us_entries)
    /\ us_pc' = "done"
    /\ UNCHANGED <<us_lines, in_procedure, us_i>>
    /\ UNCHANGED ddVars
    /\ UNCHANGED notUsage

NextUsage ==
    \/ \E line \in UsageDictLines : ParseLine(line)
    \/ ApplyIgnoreRules(<<>>)
    \/ BuildHierarchyStep
    \/ \E proc \in ProcTexts : UsageBegin(proc)
    \/ UsageScanLine
    \/ UsagePropagate

(***************************************************************************)
(* Batch usage scan: scripts/analysis/scan_variable_usage.py, step 7 of    *)
(* scripts/pipeline/main.py                                                *)
(***************************************************************************)
MaxBatchFiles == 4

ProgramNames == {"PGMA", "PGMB", "PGMC", "PGMD"}

InitBatchVars ==
    /\ bt_pc = "setup"
    /\ normalized_files = <<>>
    /\ missing = {}
    /\ bt_i = 1
    /\ outputs = <<>>
    /\ usage_outputs = "unset"

\* the list of normalized files has one more program
BatchAddFile(program) ==
    /\ bt_pc = "setup"
    /\ Len(normalized_files) < MaxBatchFiles
    /\ ~InSeq(normalized_files, program)
    /\ normalized_files' = Append(normalized_files, program)
    /\ UNCHANGED <<bt_pc, missing, bt_i, outputs, usage_outputs>>
    /\ UNCHANGED notBatch

\* run_pipeline reaches step 7 and calls scan_variable_usage; gone is the set
\* of programs whose .etude or per-program dictionary is not on disk
BatchBegin(gone) ==
    /\ bt_pc = "setup"
    /\ gone \subseteq {normalized_files[k] : k \in 1..Len(normalized_files)}
    /\ missing' = gone
    /\ bt_pc' = "step7"
    /\ bt_i' = 1
    /\ outputs' = <<>>
    /\ UNCHANGED <<normalized_files, usage_outputs>>
    /\ UNCHANGED notBatch

\* scan_variable_usage_for_program: raises FileNotFoundError when the .etude
\* (etude_path.exists()) or <PGM>_dd.csv (_load_dd_for_program) is missing
RaisesFileNotFound(program) == program \in missing

\* one iteration of "for p in normalized_files"; no try encloses the call,
\* neither in scan_variable_usage nor at step 7 of run_pipeline
ScanNextFile ==
    LET program == normalized_files[bt_i] IN
    /\ bt_pc = "step7"
    /\ bt_i <= Len(normalized_files)
    /\ IF RaisesFileNotFound(program)
       THEN /\ bt_pc' = "raised"
            /\ UNCHANGED <<bt_i, outputs>>
       ELSE /\ outputs' = Append(outputs, program \o "_usage.csv")
            /\ bt_i' = bt_i + 1
            /\ UNCHANGED bt_pc
    /\ UNCHANGED <<normalized_files, missing, usage_outputs>>
    /\ UNCHANGED notBatch

\* return outputs; run_pipeline goes on with step 8
ScanReturn ==
    /\ bt_pc = "step7"
    /\ bt_i > Len(normalized_files)
    /\ usage_outputs' = outputs
    /\ bt_pc' = "step8"
    /\ UNCHANGED <<normalized_files, missing, bt_i, outputs>>
    /\ UNCHANGED notBatch

\* the dictionary builder over listings with copy sentinels
NextSource ==
    \/ \E line \in SourceLines : ParseSourceLine(line)
    \/ ApplyIgnoreRules(<<>>)
    \/ BuildHierarchyStep

NextBatch ==
    \/ \E program \in ProgramNames : BatchAddFile(program)
    \/ \E gone \in SUBSET ProgramNames : BatchBegin(gone)
    \/ ScanNextFile
    \/ ScanReturn

(***************************************************************************)
(* Program dictionary: generate_dd_and_copybooks and its nested            *)
(* flush_current_item (build_program_dd_and_copybooks.py).  The rows keep   *)
(* the columns the hierarchy decides (section, level, name, parent_name,   *)
(* full_path); the listings carry no *COPYBOOK sentinel, so copy_stack     *)
(* stays empty and every row is of LOCAL origin.                           *)
(***************************************************************************)
MaxEtudeLines == 4

\* line[7:72], or line[7:], or ""
_code_zone(line) ==
    IF Len(line) >= 72 THEN Slice(line, 7, 72)
    ELSE IF Len(line) > 7 THEN SliceFrom(line, 7)
    ELSE ""

\* _is_comment_line of build_program_dd_and_copybooks.py
_is_comment_line_dd(line) ==
    \/ line = ""
    \/ Len(line) >= 7 /\ At(line, 6) = "*"
    \/ StartsWith(LStrip(_code_zone(line)), "*")

\* \bw1\s+w2\b matches the upper-cased text u at position p
WordsAt(u, p, w1, w2) ==
    LET rest == SliceFrom(u, p + Len(w1))
        t    == LStrip(rest)
        q    == Len(u) - Len(t) + Len(w2)
    IN  /\ Slice(u, p, p + Len(w1)) = w1
        /\ ~IsWordChar(At(u, p - 1))
        /\ rest # t
        /\ StartsWith(t, w2)
        /\ ~IsWordChar(At(u, q))

\* re.search of \bw1\s+w2\b, IGNORECASE
SearchWords(cz, w1, w2) == \E p \in 0..Len(cz) : WordsAt(Upper(cz), p, w1, w2)

RE_DATA_DIV(cz) == SearchWords(cz, "DATA", "DIVISION")

RE_PROC_DIV(cz) == SearchWords(cz, "PROCEDURE", "DIVISION")

\* the first words of the four alternatives of RE_SECTION, each followed by SECTION
SectionWords == <<"FILE", "WORKING-STORAGE", "LOCAL-STORAGE", "LINKAGE">>

\* RE_SECTION.search(cz) then _section_label(msec.group(1)): the label of the
\* leftmost section header of the line, "NONE" when the search fails
RE_SECTION(cz) ==
    LET u    == Upper(cz)
        hits == {<<p, k>> \in (0..Len(cz)) \X (1..Len(SectionWords)) :
                    WordsAt(u, p, SectionWords[k], "SECTION")}
    IN  IF hits = {} THEN "NONE"
        ELSE LET first == SetMin({h[1] : h \in hits})
             IN  SectionWords[(CHOOSE h \in hits : h[1] = first)[2]]

\* the characters of [A-Z0-9$#@_-], IGNORECASE
IsItemNameChar(c) == IsAlnum(c) \/ c \in {"$", "#", "@", "_", "-"}

RECURSIVE TakeItemName(_)
TakeItemName(s) ==
    IF s # "" /\ IsItemNameChar(Head(s)) THEN Head(s) \o TakeItemName(Tail(s)) ELSE ""

\* RE_ITEM_START.match(cz_u): ^\s*(\d{2})\s+([A-Z0-9$#@_-]+)\b gives
\* <<level, name>>, or <<>> when there is no match; the name is the longest
\* run of name characters that ends on a word boundary
RE_ITEM_START(cz_u) ==
    LET t     == LStrip(cz_u)
        after == SliceFrom(t, 2)
        tail  == LStrip(after)
        run   == TakeItemName(tail)
        ends  == {k \in 1..Len(run) :
                    IsWordChar(At(tail, k - 1)) # IsWordChar(At(tail, k))}
    IN  IF /\ IsDigit(At(t, 0)) /\ IsDigit(At(t, 1))
           /\ after # tail
           /\ ends # {}
        THEN <<Slice(t, 0, 2), Slice(tail, 0, SetMax(ends))>>
        ELSE <<>>

\* the listing lines of the program dictionary model
EtudeTexts ==
    { "000100 DATA DIVISION.\n",
      "000200 WORKING-STORAGE SECTION.\n",
      "000300 01  A.\n",
      "000400     05  B PIC X.\n",
      "000500 77  C\n",
      "000600         PIC X.\n",
      "000700 66  D RENAMES B.\n",
      "000800     88  V VALUE 'Y'.\n",
      "000900 PROCEDURE DIVISION.\n" }

InitProgramDDVars ==
    /\ pd_pc = "setup"
    /\ etude = <<>>
    /\ pd_i = 1
    /\ in_data = FALSE
    /\ pd_section = ""
    /\ pd_stack = <<>>
    /\ last_condition_parent = ""
    /\ last_condition_parent_path = ""
    /\ current_item_meta = <<>>
    /\ current_item_lines = <<>>
    /\ program_rows = <<>>

\* the nonlocal variables of flush_current_item, as one record
ItemState ==
    [ meta |-> current_item_meta, lines |-> current_item_lines,
      stack |-> pd_stack, parent |-> last_condition_parent,
      parent_path |-> last_condition_parent_path, rows |-> program_rows ]

\* while stack and stack[-1][0] >= level_int: stack.pop()
RECURSIVE PopProgramStack(_, _)
PopProgramStack(stk, level_int) ==
    IF stk # <<>> /\ stk[Len(stk)][1] >= level_int
    THEN PopProgramStack(SubSeq(stk, 1, Len(stk) - 1), level_int)
    ELSE stk

\* flush_current_item, under the section sec
flush_current_item(s, sec) ==
    IF s.meta = <<>> \/ s.lines = <<>>
    THEN [s EXCEPT !.meta = <<>>, !.lines = <<>>]
    ELSE
    LET level_str == s.meta[1]
        name      == s.meta[2]
        level_int == IntOf(level_str)
        stk       == IF level_int = 88 THEN s.stack
                     ELSE PopProgramStack(s.stack, level_int)
        parent_name == IF level_int = 88 THEN s.parent
                       ELSE IF stk # <<>> THEN stk[Len(stk)][2] ELSE ""
        parent_path == IF level_int = 88 THEN s.parent_path
                       ELSE IF stk # <<>> THEN stk[Len(stk)][3] ELSE ""
        full_path == IF parent_path # "" THEN parent_path \o "/" \o name ELSE name
        row == [ section |-> sec, level |-> level_str, name |-> name,
                 parent_name |-> parent_name, full_path |-> full_path ]
    IN  [ meta |-> <<>>, lines |-> <<>>,
          stack |-> IF level_int \notin {66, 77, 88}
                    THEN Append(stk, <<level_int, name, full_path>>) ELSE stk,
          parent |-> IF level_int \notin {66, 88} THEN name ELSE s.parent,
          parent_path |-> IF level_int \notin {66, 88} THEN full_path ELSE s.parent_path,
          rows |-> Append(s.rows, row) ]

\* the nonlocal variables take the values of the record s
SetItemState(s) ==
    /\ current_item_meta' = s.meta
    /\ current_item_lines' = s.lines
    /\ pd_stack' = s.stack
    /\ last_condition_parent' = s.parent
    /\ last_condition_parent_path' = s.parent_path
    /\ program_rows' = s.rows

\* the .etude has one more line
EtudeAddLine(raw) ==
    /\ pd_pc = "setup"
    /\ Len(etude) < MaxEtudeLines
    /\ etude' = Append(etude, raw)
    /\ UNCHANGED <<pd_pc, pd_i, in_data, pd_section, pd_stack, last_condition_parent,
                   last_condition_parent_path, current_item_meta, current_item_lines,
                   program_rows>>
    /\ UNCHANGED notProgramDD

\* the file is opened
GenerateBegin ==
    /\ pd_pc = "setup"
    /\ pd_pc' = "loop"
    /\ UNCHANGED <<etude, pd_i, in_data, pd_section, pd_stack, last_condition_parent,
                   last_condition_parent_path, current_item_meta, current_item_lines,
                   program_rows>>
    /\ UNCHANGED notProgramDD

\* one iteration of "for lineno, raw in enumerate(f, start=1)"; in_proc is set
\* only on the iteration that leaves the loop
GenerateLine ==
    LET line  == RStripChar(etude[pd_i], "\n")
        cz    == _code_zone(line)
        cz_u  == RStrip(cz)
        msec  == RE_SECTION(cz)
        mitem == RE_ITEM_START(cz_u)
        flushed == flush_current_item(ItemState, pd_section)
        started == [flushed EXCEPT !.meta = mitem, !.lines = <<Strip(cz_u)>>]
        more    == [ItemState EXCEPT !.lines = Append(@, Strip(cz_u))]
        skip    == UNCHANGED <<in_data, pd_section, pd_pc>> /\ SetItemState(ItemState)
    IN
    /\ pd_pc = "loop"
    /\ pd_i <= Len(etude)
    /\ pd_i' = pd_i + 1
    /\ UNCHANGED etude
    /\ IF ~in_data /\ RE_DATA_DIV(cz)
       THEN in_data' = TRUE /\ UNCHANGED <<pd_section, pd_pc>> /\ SetItemState(ItemState)
       ELSE IF in_data /\ RE_PROC_DIV(cz)
       THEN pd_pc' = "eof" /\ UNCHANGED <<in_data, pd_section>> /\ SetItemState(flushed)
       ELSE IF ~in_data
       THEN skip
       ELSE IF msec # "NONE"
       THEN /\ pd_section' = msec
            /\ SetItemState([flushed EXCEPT !.stack = <<>>, !.parent = "",
                                            !.parent_path = ""])
            /\ UNCHANGED <<in_data, pd_pc>>
       ELSE IF _is_comment_line_dd(line)
       THEN skip
       ELSE IF mitem # <<>>
       THEN /\ SetItemState(IF Contains(cz_u, ".")
                            THEN flush_current_item(started, pd_section)
                            ELSE started)
            /\ UNCHANGED <<in_data, pd_section, pd_pc>>
       ELSE IF current_item_meta # <<>>
       THEN /\ SetItemState(IF Contains(cz_u, ".")
                            THEN flush_current_item(more, pd_section)
                            ELSE more)
            /\ UNCHANGED <<in_data, pd_section, pd_pc>>
       ELSE skip
    /\ UNCHANGED notProgramDD

\* "# fin fichier": the last flush_current_item, after the loop
GenerateEof ==
    /\ \/ pd_pc = "eof"
       \/ pd_pc = "loop" /\ pd_i > Len(etude)
    /\ SetItemState(flush_current_item(ItemState, pd_section))
    /\ pd_pc' = "done"
    /\ UNCHANGED <<etude, pd_i, in_data, pd_section>>
    /\ UNCHANGED notProgramDD

NextProgramDD ==
    \/ \E raw \in EtudeTexts : EtudeAddLine(raw)
    \/ GenerateBegin
    \/ GenerateLine
    \/ GenerateEof

(***************************************************************************)
(* Program structure: detect_paragraphs_in_etude (program_structure.py)    *)
(* and the ranges scan_variable_usage.py reads back from its rows          *)
(***************************************************************************)
MaxStructLines == 4

\* str.isdigit
IsDigits(s) == s # "" /\ \A k \in 1..Len(s) : IsDigit(SubSeq(s, k, k))

\* is_paragraph_line of program_structure.py, whose body is that of
\* _is_paragraph_line of analysis_core.py
is_paragraph_line(line) == _is_paragraph_line(line)

\* the sequence zones and code texts of the lines of the .etude
StructSeqs == {"000100", "000101", "000200", "000300"}
StructCodes == {"PROCEDURE DIVISION.", "PARA-A.", "    MOVE A TO B."}
StructLines ==
    {sq \o " " \o cd : sq \in StructSeqs, cd \in StructCodes}
    \cup {"       PARA-A."}

InitStructVars ==
    /\ ps_pc = "setup"
    /\ ps_lines = <<>>
    /\ ps_i = 1
    /\ in_procedure_division = FALSE
    /\ raw_paragraphs = <<>>
    /\ last_seq_in_file = "NONE"
    /\ structure_rows = <<>>
    /\ ranges = <<>>

\* the .etude has one more line
StructAddLine(raw) ==
    /\ ps_pc = "setup"
    /\ Len(ps_lines) < MaxStructLines
    /\ ps_lines' = Append(ps_lines, raw)
    /\ UNCHANGED <<ps_pc, ps_i, in_procedure_division, raw_paragraphs, last_seq_in_file,
                   structure_rows, ranges>>
    /\ UNCHANGED notStruct

\* detect_paragraphs_in_etude is called on the file; an empty file returns at once
DetectBegin ==
    /\ ps_pc = "setup"
    /\ ps_pc' = IF ps_lines = <<>> THEN "written" ELSE "pass1"
    /\ UNCHANGED <<ps_lines, ps_i, in_procedure_division, raw_paragraphs, last_seq_in_file,
                   structure_rows, ranges>>
    /\ UNCHANGED notStruct

\* first pass, one line: PROCEDURE DIVISION, the paragraph headers and the
\* last sequence number of the file
FirstPassLine ==
    LET raw  == RStripChar(ps_lines[ps_i], "\n")
        line == IF Len(raw) < 72 THEN LJust(raw, 72) ELSE raw
        sq   == Slice(line, 0, 6)
        code == Strip(Slice(line, 7, 72))
        first_token == Split(RStrip(Slice(line, 7, 72)))[1]
        name == RStripChar(first_token, ".")
    IN  /\ ps_pc = "pass1"
        /\ ps_i <= Len(ps_lines)
        /\ last_seq_in_file' = IF IsDigits(Strip(sq)) THEN sq ELSE last_seq_in_file
        /\ IF StartsWith(Upper(code), "PROCEDURE DIVISION")
           THEN in_procedure_division' = TRUE /\ UNCHANGED raw_paragraphs
           ELSE IF ~in_procedure_division \/ ~is_paragraph_line(line)
           THEN UNCHANGED <<in_procedure_division, raw_paragraphs>>
           ELSE /\ raw_paragraphs' = Append(raw_paragraphs, [name |-> name, start_seq |-> sq])
                /\ UNCHANGED in_procedure_division
        /\ ps_i' = ps_i + 1
        /\ UNCHANGED <<ps_pc, ps_lines, structure_rows, ranges>>
        /\ UNCHANGED notStruct

\* end of the first pass: no paragraph, or the fallback for last_seq_in_file
FirstPassEnd ==
    /\ ps_pc = "pass1"
    /\ ps_i > Len(ps_lines)
    /\ ps_pc' = IF raw_paragraphs = <<>> THEN "written" ELSE "pass2"
    /\ last_seq_in_file' =
          IF raw_paragraphs # <<>> /\ last_seq_in_file = "NONE"
          THEN raw_paragraphs[Len(raw_paragraphs)].start_seq
          ELSE last_seq_in_file
    /\ ps_i' = 1
    /\ UNCHANGED <<ps_lines, in_procedure_division, raw_paragraphs, structure_rows, ranges>>
    /\ UNCHANGED notStruct

\* a span that ends on the header of the next paragraph
SpanEndAtNextHeader(deb, next_seq) == next_seq

\* fin_proc of a paragraph followed by another one: the sequence number before
\* the next header, not below deb, as f"{fin_int:06d}"; next_seq as it stands
\* when one of the two is not numeric
SpanEnd(deb, next_seq) ==
    IF IsDigits(Strip(deb)) /\ IsDigits(Strip(next_seq))
    THEN Format06d(Max(IntOf(Strip(next_seq)) - 1, IntOf(Strip(deb))))
    ELSE next_seq

\* second pass, one raw paragraph: its row with deb_proc and fin_proc
SecondPassStep ==
    LET p   == raw_paragraphs[ps_i]
        deb == p.start_seq
        fin == IF ps_i + 1 <= Len(raw_paragraphs)
               THEN SpanEnd(deb, raw_paragraphs[ps_i + 1].start_seq)
               ELSE IF last_seq_in_file # "" THEN last_seq_in_file ELSE deb
    IN  /\ ps_pc = "pass2"
        /\ ps_i <= Len(raw_paragraphs)
        /\ structure_rows' = Append(structure_rows,
                                    [proc |-> p.name, deb_proc |-> deb, fin_proc |-> fin])
        /\ ps_i' = ps_i + 1
        /\ ps_pc' = IF ps_i = Len(raw_paragraphs) THEN "written" ELSE "pass2"
        /\ UNCHANGED <<ps_lines, in_procedure_division, raw_paragraphs, last_seq_in_file,
                       ranges>>
        /\ UNCHANGED notStruct

\* ranges.sort(key=lambda r: int(r["start"])): a stable insertion by start
RECURSIVE SortByStart(_)
SortByStart(rs) ==
    IF rs = <<>> THEN <<>>
    ELSE LET sorted == SortByStart(SubSeq(rs, 1, Len(rs) - 1))
             r      == rs[Len(rs)]
             before == SelectSeq(sorted, LAMBDA x : x.start <= r.start)
             after  == SelectSeq(sorted, LAMBDA x : x.start > r.start)
         IN  before \o <<r>> \o after

\* _load_proc_ranges: the rows with a name and numeric bounds, sorted by start
_load_proc_ranges(rows) ==
    LET Usable(row) == /\ Strip(row.proc) # ""
                       /\ IsDigits(Strip(row.deb_proc))
                       /\ IsDigits(Strip(row.fin_proc))
        kept == SelectSeq(rows, Usable)
    IN  SortByStart([k \in 1..Len(kept) |->
                        [start |-> IntOf(Strip(kept[k].deb_proc)),
                         end |-> IntOf(Strip(kept[k].fin_proc)),
                         paragraph |-> Strip(kept[k].proc)]])

\* the first range that holds n, "?" when there is none
_find_paragraph_for_seq(n, rs) ==
    LET hits == {k \in 1..Len(rs) : rs[k].start <= n /\ n <= rs[k].end}
    IN  IF hits = {} THEN "?" ELSE rs[SetMin(hits)].paragraph

\* scan_variable_usage_for_program reads the rows of the program back
LoadProcRanges ==
    /\ ps_pc = "written"
    /\ ranges' = _load_proc_ranges(structure_rows)
    /\ ps_pc' = "done"
    /\ UNCHANGED <<ps_lines, ps_i, in_procedure_division, raw_paragraphs, last_seq_in_file,
                   structure_rows>>
    /\ UNCHANGED notStruct

NextStruct ==
    \/ \E raw \in StructLines : StructAddLine(raw)
    \/ DetectBegin
    \/ FirstPassLine
    \/ FirstPassEnd
    \/ SecondPassStep
    \/ LoadProcRanges

(***************************************************************************)
(* Specifications, one per component                                       *)
(***************************************************************************)
Init ==
    /\ InitDictVars /\ InitScanVars /\ InitGraphVars /\ InitNormVars /\ InitCopyVars
    /\ InitPathVars /\ InitScoreVars /\ InitUsageVars /\ InitBatchVars
    /\ InitProgramDDVars /\ InitStructVars

SpecDict == Init /\ [][NextDict]_vars

SpecScan == Init /\ [][NextScan]_vars

SpecCycles == Init /\ [][NextCycles]_vars

SpecScore == Init /\ [][NextScore]_vars

SpecNorm == Init /\ [][NextNorm]_vars

SpecCopy == Init /\ [][NextCopy]_vars

SpecUsage == Init /\ [][NextUsage]_vars

SpecBatch == Init /\ [][NextBatch]_vars

SpecProgramDD == Init /\ [][NextProgramDD]_vars

SpecSource == Init /\ [][NextSource]_vars

SpecStruct == Init /\ [][NextStruct]_vars

(***************************************************************************)
(* Properties of the data dictionary                                       *)
(***************************************************************************)
DictDone == dd_pc = "done"
Lvl(i) == IntOf(entries[i].level)
\* the entries build_hierarchy has already given a parent and a path
Built == 1..(hi - 1)
\* the items before i, of strictly smaller level, with no 66/77 item between
SmallerBefore(i) ==
    {j \in 1..(i - 1) :
        /\ Lvl(j) < Lvl(i)
        /\ \A k \in (j + 1)..(i - 1) : Lvl(k) \notin {66, 77}}
\* the non-88 items before i
Non88Before(i) == {j \in 1..(i - 1) : Lvl(j) # 88}

\* C2 as stated: after build_hierarchy every item of level 2..49 has a
\* non-empty parent, and the level of that parent is strictly smaller.
C2_EveryItemHasSmallerParent ==
    DictDone =>
        \A i \in 1..Len(entries) :
            Lvl(i) \in 2..49 =>
                /\ entries[i].parent_name # ""
                /\ entries[i].parent_level < Lvl(i)

\* C2 amended: an item of level 2..49 has as parent the nearest preceding
\* item of strictly smaller level met since the last 66/77 item, so the
\* parent's level is strictly smaller; when there is no such item (the item
\* comes first, or only items of level >= its own or a 66/77 item precede
\* it) the item has no parent and its full_path is its own name.
C2_ParentIsNearestSmallerLevel ==
    \A i \in Built :
        Lvl(i) \in 2..49 =>
            IF SmallerBefore(i) = {}
            THEN /\ entries[i].parent_name = ""
                 /\ entries[i].full_path = entries[i].name
            ELSE LET j == SetMax(SmallerBefore(i)) IN
                 /\ entries[i].parent_name = entries[j].name
                 /\ entries[i].parent_level = Lvl(j)
                 /\ entries[i].parent_level < Lvl(i)
                 /\ entries[i].full_path = entries[j].full_path \o "/" \o entries[i].name

\* a built item of level 2..49 whose parent is not the item right before it
C2_Witness ==
    /\ DictDone
    /\ \E i \in 1..Len(entries) :
        /\ Lvl(i) \in 2..49
        /\ SmallerBefore(i) # {}
        /\ SetMax(SmallerBefore(i)) < i - 1
        /\ Lvl(i - 1) # 88

\* C3: a level-88 item's parent is the nearest preceding non-88 item (a 66
\* or 77 item included), and an 88 item is never on the hierarchy stack,
\* never the remembered last non-88 item and never taken as a parent.
C3_ConditionAttachesToLastNon88 ==
    /\ \A i \in Built :
        Lvl(i) = 88 /\ Non88Before(i) # {} =>
            LET j == SetMax(Non88Before(i)) IN
            /\ entries[i].parent_name = entries[j].name
            /\ entries[i].parent_level = Lvl(j)
            /\ entries[i].full_path = entries[j].full_path \o "/" \o entries[i].name
    /\ \A k \in 1..Len(stack) : stack[k][1] # 88
    /\ last_non_88 # <<>> => last_non_88[1] # 88
    /\ \A i \in Built : entries[i].parent_level # 88

\* an 88 item attached to a 77 item, and a later item that skips an 88
C3_Witness ==
    /\ DictDone
    /\ \E i \in 1..Len(entries) : Lvl(i) = 88 /\ entries[i].parent_level \in {66, 77}

\* C4 as stated: no two items of the same section carry the same full_path.
C4_FullPathUniqueInSection ==
    DictDone =>
        \A i, j \in 1..Len(entries) :
            i # j /\ entries[i].section = entries[j].section
                => entries[i].full_path # entries[j].full_path

\* C23: every 66 or 77 item has no parent and its own name as full_path,
\* and it empties the hierarchy stack: the next non-88 item of level 01..49
\* after it has no parent either.
C23_IndependentItemEmptiesStack ==
    /\ \A i \in Built :
          Lvl(i) \in {66, 77} =>
              /\ entries[i].parent_name = ""
              /\ entries[i].full_path = entries[i].name
    /\ (dd_pc \in {"build", "done"} /\ last_non_88 # <<>> /\ last_non_88[1] \in {66, 77})
          => stack = <<>>
    /\ \A i \in Built :
          (/\ Lvl(i) \in 1..49
           /\ Non88Before(i) # {}
           /\ Lvl(SetMax(Non88Before(i))) \in {66, 77})
          => /\ entries[i].parent_name = ""
             /\ entries[i].full_path = entries[i].name

\* a group item, then a 66 or 77 item, then an item of level 05 that would
\* have been a member of the group
C23_Witness ==
    /\ DictDone
    /\ Len(entries) = 3
    /\ Lvl(1) = 1
    /\ Lvl(2) \in {66, 77}
    /\ Lvl(3) = 5
    /\ entries[3].parent_name = ""

\* the entry build_hierarchy processed last, while or after it runs
LastProcessed == entries[hi - 1]

\* C28: after each declaration processed by build_hierarchy, the levels on
\* the stack are strictly increasing from bottom to top, every stack entry's
\* full_path is its predecessor's full_path + "/" + name (the bare name at the
\* bottom), and a newly pushed item's parent is the entry directly below it.
C28_StackIsChainOfAncestors ==
    (dd_pc \in {"build", "done"}) =>
        /\ \A k \in 1..(Len(stack) - 1) : stack[k][1] < stack[k + 1][1]
        /\ \A k \in 1..Len(stack) :
              stack[k][3] = IF k = 1 THEN stack[k][2]
                            ELSE stack[k - 1][3] \o "/" \o stack[k][2]
        /\ (hi > 1 /\ Lvl(hi - 1) \notin {66, 77, 88}) =>
              /\ stack # <<>>
              /\ stack[Len(stack)] = <<Lvl(hi - 1), LastProcessed.name,
                                       LastProcessed.full_path>>
              /\ LastProcessed.parent_name =
                    (IF Len(stack) >= 2 THEN stack[Len(stack) - 1][2] ELSE "")
              /\ LastProcessed.parent_level =
                    (IF Len(stack) >= 2 THEN stack[Len(stack) - 1][1] ELSE 0)

\* a 05 item has been pushed on a 01 group after an earlier group was popped
C28_Witness ==
    /\ dd_pc = "done"
    /\ Len(entries) = 3
    /\ Lvl(1) = 1 /\ Lvl(2) = 1 /\ Lvl(3) = 5
    /\ Len(stack) = 2
    /\ stack[1][1] = 1 /\ stack[2][1] = 5
    /\ LastProcessed.parent_name = stack[1][2]
    /\ LastProcessed.full_path = stack[1][2] \o "/" \o LastProcessed.name

(***************************************************************************)
(* Properties of the paragraph / call / exit scan                          *)
(***************************************************************************)
ScanDone == sc_pc = "done"
ParaNames == {paragraphs[k].name : k \in 1..Len(paragraphs)}
\* the code zone of line i (1-based), and its words with periods dropped
CodeOf(i) == RStrip(Slice(lines[i], 7, 72))
WordsOf(i) == Split(Replace(CodeOf(i), ".", " "))
SeqOf(i) == Slice(lines[i], 0, 6)
\* line i (1-based) lies in the span of paragraph k: after its header and
\* before the next header
InSpan(i, k) ==
    /\ paragraphs[k].start_index < i - 1
    /\ k = Len(paragraphs) \/ i - 1 < paragraphs[k + 1].start_index
\* line i comes after a PROCEDURE DIVISION marker line
InProcedure(i) ==
    \E j \in 1..(i - 1) : StartsWith(Upper(Strip(Slice(lines[j], 7, 72))), "PROCEDURE DIVISION")

\* C5: every recorded call edge has a target in the paragraph-name set, a
\* source that is a paragraph, and comes from a line of the source's span
\* where GO TO / PERFORM / THRU is followed by the target's name or by that
\* name with the suffix -F; so a target that matches no paragraph gives no edge.
C5_EdgesResolveToParagraphs ==
    \A t \in DOMAIN scan.callers :
        /\ t \in ParaNames
        /\ \A m \in 1..Len(scan.callers[t]) :
            LET c == scan.callers[t][m] IN
            /\ c.src_paragraph \in ParaNames
            /\ c.kind \in {"GO TO", "PERFORM", "PERFORM THRU"}
            /\ \E i \in 1..Len(lines) :
                /\ SeqOf(i) = c.seq
                /\ \E k \in 1..Len(paragraphs) :
                      InSpan(i, k) /\ paragraphs[k].name = c.src_paragraph
                /\ \E j \in 2..Len(WordsOf(i)) :
                      /\ Upper(WordsOf(i)[j - 1]) \in {"TO", "PERFORM", "THRU"}
                      /\ WordsOf(i)[j] \in {t, t \o "-F"}

\* a PERFORM edge recorded from a line whose THRU target matches no
\* paragraph, and a GO TO edge recorded through the -F fallback
C5_Witness ==
    /\ ScanDone
    /\ \/ \E t \in DOMAIN scan.callers : \E m \in 1..Len(scan.callers[t]) :
            /\ scan.callers[t][m].kind = "PERFORM"
            /\ Contains(scan.callers[t][m].line_text, "THRU 100-INIT-X")
            /\ scan.nb_perform_thru = 0
       \/ \E t \in DOMAIN scan.callers : \E m \in 1..Len(scan.callers[t]) :
            /\ scan.callers[t][m].kind = "GO TO"
            /\ Contains(scan.callers[t][m].line_text, t \o "-F")

\* a PERFORM statement of the procedure division names paragraph n
PerformedSomewhere(n) ==
    \E i \in 1..Len(lines) :
        /\ InProcedure(i)
        /\ At(lines[i], 6) # "*"
        /\ \E j \in 2..Len(WordsOf(i)) :
              Upper(WordsOf(i)[j - 1]) = "PERFORM" /\ WordsOf(i)[j] = n

\* C7 as stated: a paragraph is an entry point iff its name starts with a
\* digit and it has no incoming call edge; in particular a paragraph that a
\* PERFORM statement of the program targets is never an entry point.
C7_EntryPointsExcludePerformed ==
    ScanDone =>
        \A n \in ParaNames :
            /\ InSeq(entry_points, n) <=>
                  (IsDigit(Head(n)) /\ scan.callers[n] = <<>>)
            /\ PerformedSomewhere(n) => ~InSeq(entry_points, n)

\* the words of a code text, upper-cased, a trailing period dropped
StatementWords(code) ==
    LET ws == Split(Upper(code)) IN [j \in 1..Len(ws) |-> RStripChar(ws[j], ".")]
\* the code text holds an exit statement of the given kind
HasExitStatement(code, kind) ==
    LET ws == StatementWords(code)
        Cics(verb) == \E j \in 1..(Len(ws) - 2) :
                        ws[j] = "EXEC" /\ ws[j + 1] = "CICS" /\ ws[j + 2] = verb
    IN  CASE kind = "XCTL" -> Cics("XCTL")
          [] kind = "RETURN" -> Cics("RETURN")
          [] kind = "GOBACK" -> InSeq(ws, "GOBACK")
          [] kind = "STOP RUN" ->
                \E j \in 1..(Len(ws) - 1) : ws[j] = "STOP" /\ ws[j + 1] = "RUN"

\* C10 as stated: every line in the span of paragraph P that holds an exit
\* statement (EXEC CICS XCTL, EXEC CICS RETURN, GOBACK, STOP RUN) yields an
\* ExitEvent of that kind under P and under no other paragraph, the label
\* of an XCTL / RETURN event containing the PROGRAM / TRANSID operand.
C10_ExitLinesYieldEvents ==
    ScanDone =>
        \A k \in 1..Len(paragraphs) : \A i \in 1..Len(lines) :
            \A kind \in {"XCTL", "RETURN", "GOBACK", "STOP RUN"} :
                InSpan(i, k) /\ HasExitStatement(CodeOf(i), kind) =>
                    LET P == paragraphs[k].name
                        operand == CASE kind = "XCTL" -> SearchOperand(CodeOf(i), "PROGRAM")
                                     [] kind = "RETURN" -> SearchOperand(CodeOf(i), "TRANSID")
                                     [] OTHER -> ""
                    IN  /\ \E m \in 1..Len(scan.exits[P]) :
                              /\ scan.exits[P][m].kind = kind
                              /\ scan.exits[P][m].seq = SeqOf(i)
                              /\ scan.exits[P][m].paragraph = P
                              /\ Contains(scan.exits[P][m].label, operand)
                        /\ \A q \in DOMAIN scan.exits :
                              q # P => \A m \in 1..Len(scan.exits[q]) :
                                          scan.exits[q][m].seq # SeqOf(i)

\* C11: _extract_paragraphs records a paragraph only for header lines that
\* come after the first PROCEDURE DIVISION marker line, and for each of
\* them; a recorded paragraph carries columns 1-6 of its header as sequence
\* label and the token minus its trailing period as name; the order numbers
\* are 1..n in file order.
C11_ParagraphsAfterProcedureDivision ==
    sc_pc # "read" =>
        /\ \A k \in 1..Len(paragraphs) :
              LET p == paragraphs[k]
                  i == p.start_index + 1
              IN  /\ p.order = k
                  /\ i \in 1..Len(lines)
                  /\ _is_paragraph_line(lines[i])
                  /\ InProcedure(i)
                  /\ p.seq = SeqOf(i)
                  /\ p.name \o "." = Split(CodeOf(i))[1]
                  /\ k > 1 => paragraphs[k - 1].start_index < p.start_index
        /\ \A i \in 1..Len(lines) :
              (InProcedure(i) /\ _is_paragraph_line(lines[i]))
                  => \E k \in 1..Len(paragraphs) : paragraphs[k].start_index = i - 1

\* a header before the PROCEDURE DIVISION line is skipped and one after it is
\* recorded with order 1
C11_Witness ==
    /\ sc_pc # "read"
    /\ Len(lines) = 3
    /\ _is_paragraph_line(lines[1])
    /\ ~InProcedure(2) /\ InProcedure(3)
    /\ Len(paragraphs) = 1
    /\ paragraphs[1].start_index = 2
    /\ paragraphs[1].seq = "000003"

\* the rule for a paragraph header: column 7 is not '*', column 8 is not
\* blank, the code zone is one token ending with a period, the name is 1-30
\* letters, digits or dashes starting with a letter or digit, and is neither
\* a reserved verb nor an END-xxx token
HeaderRule(line) ==
    LET code == RStrip(Slice(line, 7, 72))
        name == Upper(SubSeq(code, 1, Len(code) - 1))
    IN  /\ Len(line) >= 8
        /\ At(line, 6) # "*"
        /\ ~IsSpace(At(line, 7))
        /\ Len(Split(code)) = 1
        /\ EndsWith(code, ".")
        /\ Len(name) \in 1..30
        /\ IsAlnum(Head(name))
        /\ \A k \in 1..Len(name) : IsNameChar(SubSeq(name, k, k))
        /\ name \notin {"EXIT", "GOBACK"}
        /\ ~StartsWith(name, "END-")

\* C21 as stated: _is_paragraph_line accepts a line exactly when the header
\* rule holds, so 'EXIT.', 'GOBACK.' or 'END-IF.' in column 8 is no header.
C21_ParagraphLineFollowsHeaderRule ==
    \A k \in 1..Len(lines) : _is_paragraph_line(lines[k]) <=> HeaderRule(lines[k])

(***************************************************************************)
(* Properties of the call-graph analytics                                  *)
(***************************************************************************)
CyclesDone == cy_pc = "done"
\* the nodes reached from n along at least one edge, in at most k further steps
RECURSIVE ReachWithin(_, _)
ReachWithin(S, k) ==
    LET next == UNION {call_graph[m] : m \in S} IN
    IF k = 0 THEN next ELSE next \cup ReachWithin(next, k - 1)
OnCycle(n) == n \in ReachWithin({n}, Cardinality(GraphNodes))
RingABC == [n \in GraphNodes |->
              CASE n = "A" -> {"B"} [] n = "B" -> {"C"} [] n = "C" -> {"A"}]

\* C6: find_cycles returns a non-empty list iff the call graph has a
\* directed cycle (self-loops included); every reported cycle is a path
\* along edges whose first and last node are equal; at most 5 cycles are
\* reported; for the graph A->B->C->A a reported cycle holds A, B and C.
C6_FindCyclesSoundAndComplete ==
    /\ \A m \in 1..Len(cycles) :
          LET c == cycles[m] IN
          /\ Len(c) >= 2
          /\ c[1] = c[Len(c)]
          /\ \A j \in 1..(Len(c) - 1) : c[j + 1] \in call_graph[c[j]]
    /\ Len(cycles) <= MaxCyclesReported
    /\ CyclesDone =>
          /\ cycles # <<>> <=> \E n \in GraphNodes : OnCycle(n)
          /\ call_graph = RingABC =>
                \E m \in 1..Len(cycles) :
                    \A n \in {"A", "B", "C"} : InSeq(cycles[m], n)

\* find_cycles has returned on the graph A->B->C->A
C6_Witness == CyclesDone /\ call_graph = RingABC /\ cycles # <<>>

\* the paths without a repeated node that follow call edges
SimplePaths ==
    {q \in UNION {[1..n -> GraphNodes] : n \in 1..Cardinality(GraphNodes)} :
        /\ \A i, j \in DOMAIN q : i # j => q[i] # q[j]
        /\ \A i \in 1..(Len(q) - 1) : q[i + 1] \in call_graph[q[i]]}
\* the paragraphs reached from an entry point along zero or more call edges
ReachSet ==
    LET E == {ga_entry[k] : k \in 1..Len(ga_entry)}
    IN  E \cup ReachWithin(E, Cardinality(GraphNodes))

\* C12 (as stated): max_len is the maximum number of nodes on any path the
\* depth-first traversal explores from an entry point (descent stops at a
\* node already on the current path), also when the deepest explored path
\* ends at a cycle revisit.
C12_MaxLenIsDeepestExploredPath ==
    ga_pc # "idle" =>
        max_len = SetMax({0} \cup {Len(q) : q \in {r \in SimplePaths : InSeq(ga_entry, r[1])}})

\* C13 (as stated): reachable is exactly the set of paragraphs reached from
\* an entry point along zero or more call edges, and a paragraph is reported
\* unreachable iff it is not in this set.
C13_UnreachableIffNotReached ==
    ga_pc = "reach" =>
        /\ reachable = ReachSet
        /\ \A n \in GraphNodes : InSeq(unreachable, n) <=> n \notin ReachSet

\* C13 (amended): reachable is exactly the set of paragraphs reached from an
\* entry point along zero or more call edges, cyclic graphs included; when
\* there is at least one entry point a paragraph is reported unreachable iff
\* it is not in this set, and with no entry point none is reported.
C13_UnreachableIffNotReachedFromSomeEntry ==
    ga_pc = "reach" =>
        /\ reachable = ReachSet
        /\ ga_entry # <<>> =>
              \A n \in GraphNodes : InSeq(unreachable, n) <=> n \notin ReachSet
        /\ ga_entry = <<>> => unreachable = <<>>

\* reachability has been computed from A over the cycle A -> B -> A with C outside
C13_Witness ==
    /\ ga_pc = "reach"
    /\ ga_entry = <<"A">>
    /\ call_graph = [n \in GraphNodes |-> IF n = "B" THEN {"A"} ELSE IF n = "A" THEN {"B"} ELSE {"A"}]
    /\ reachable = {"A", "B"}
    /\ unreachable = <<"C">>

\* C14: for every combination of GO TO count, declared and unused variable
\* counts (unused <= declared), call graph and entry-point list, the score
\* is within 0..100 and equals 100 minus the sum of the five penalties, each
\* within its ceiling: GO TO <= 30, dead variables <= 25, cycles 0 or 15,
\* depth 0, 5 or 10, unreachable <= 15.
C14_ScoreIsHundredMinusCappedPenalties ==
    cs_pc = "done" =>
        /\ stats.nb_variables_unused <= stats.nb_variables_declared
        /\ breakdown.score \in 0..100
        /\ breakdown.score = 100 - (breakdown.penalty_goto + breakdown.penalty_deadvars
                                    + breakdown.penalty_cycles + breakdown.penalty_depth
                                    + breakdown.penalty_unreachable)
        /\ breakdown.penalty_goto \in 0..30
        /\ breakdown.penalty_deadvars \in 0..25
        /\ breakdown.penalty_cycles \in {0, 15}
        /\ breakdown.penalty_depth \in {0, 5, 10}
        /\ breakdown.penalty_unreachable \in 0..15

\* every penalty is at its ceiling: 16 GO TO, all variables unused, a cycle, a
\* chain of 8 paragraphs and 8 paragraphs out of reach
C14_Witness ==
    /\ cs_pc = "done"
    /\ stats.nb_goto = 16
    /\ breakdown.penalty_goto = 30
    /\ breakdown.penalty_deadvars = 25
    /\ breakdown.penalty_cycles = 15
    /\ breakdown.penalty_depth = 10
    /\ breakdown.nb_unreachable = 8
    /\ breakdown.penalty_unreachable = 15
    /\ breakdown.score = 5

\* the values int(ratio_dead * 0.3) may have had in the call that gave breakdown
DeadPointsOfBreakdown ==
    {dp \in DeadRatioPoints(stats.nb_variables_declared, stats.nb_variables_unused) :
        Min(25, dp) = breakdown.penalty_deadvars}

\* C27 as stated: for the same AnalysisResult and call graph, the score of
\* generate_global_synthesis equals the score of report_markdown, including
\* for programs that have paragraphs unreachable from the entry points.
C27_SynthesisScoreEqualsReportScore ==
    cs_pc = "done" =>
        \A dp \in DeadPointsOfBreakdown :
            compute_cleanliness_score_synthesis(stats, cs_entry, cycles, dp) = breakdown.score

\* what the two functions do: the scores differ by the penalty of the
\* unreachable paragraphs, which only report_markdown counts (the floor of
\* the score at 0 apart)
C27_ScoresDifferByUnreachablePenalty ==
    cs_pc = "done" =>
        \A dp \in DeadPointsOfBreakdown :
            LET t == compute_cleanliness_score_synthesis(stats, cs_entry, cycles, dp)
            IN  breakdown.score = Max(0, t - breakdown.penalty_unreachable)

(***************************************************************************)
(* Properties of the variable usage scan                                   *)
(***************************************************************************)
\* full_path a is a strict ancestor of full_path b
StrictAncestor(a, b) == a # "" /\ StartsWith(b, a \o "/")

\* C15 as stated: when scan_procedure_usage ends, every entry seen directly
\* in the procedure text has used = Y, so has every entry whose full_path is
\* a strict ancestor of its full_path, and the propagation changes no
\* entry's usage_count, used_direct or first_usage_line.
C15_UsedReachesEveryAncestor ==
    [][us_pc = "scan" /\ us_pc' = "done" =>
        /\ \A i \in DOMAIN us_entries' :
              us_entries'[i].used_direct = "Y" =>
                 /\ us_entries'[i].used = "Y"
                 /\ \A j \in DOMAIN us_entries' :
                       StrictAncestor(us_entries'[j].full_path, us_entries'[i].full_path)
                          => us_entries'[j].used = "Y"
        /\ \A j \in DOMAIN us_entries :
              /\ us_entries'[j].usage_count = us_entries[j].usage_count
              /\ us_entries'[j].used_direct = us_entries[j].used_direct
              /\ us_entries'[j].first_usage_line = us_entries[j].first_usage_line]_vars

(***************************************************************************)
(* Properties of the batch usage scan                                      *)
(***************************************************************************)
\* step 7 is over: scan_variable_usage has returned or has raised
BatchOver == bt_pc \in {"raised", "step8"}

\* C22 as stated: when the .etude or the dictionary of one program is
\* missing, a usage file is still produced for every other program of the
\* list and the later steps of the pipeline still run.
C22_OtherProgramsStillScanned ==
    BatchOver =>
        /\ bt_pc = "step8"
        /\ \A k \in 1..Len(normalized_files) :
              normalized_files[k] \notin missing
                 => InSeq(outputs, normalized_files[k] \o "_usage.csv")

(***************************************************************************)
(* Properties of the line normalizer                                       *)
(***************************************************************************)
NormDone == nz_pc = "done"

\* C8: the line normalizer is idempotent on its own output: for any input
\* and start value s, a second run with the same s on the lines written by
\* the first retains every line and writes the same lines, column for
\* column, sentinel lines included.
C8_NormalizeIdempotent == NormDone => out_lines = first_out

\* the same property for start values whose numbers fit in six digits
NormIdempotentInRange == (NormDone /\ seq_start <= MaxSeq) => out_lines = first_out

\* the raw line forced to 80 columns, line terminator removed
Columns80(raw) ==
    LET raw_line == RStripChar(raw, "\n") IN
    IF Len(raw_line) < 80 THEN LJust(raw_line, 80) ELSE Slice(raw_line, 0, 80)
\* the code zone (columns 8-72) of line, trimmed
CodeZone(line) == Strip(Slice(line, 7, 72))
\* the iteration in progress retains its line
LineRetained ==
    /\ nz_pc \in {"run1", "run2"}
    /\ nz_pc' = nz_pc
    /\ Len(out_lines') = Len(out_lines) + 1

\* C18 as stated: every input line whose code zone, trimmed, starts with
\* SMASH is dropped, also when columns 1-6 hold a sequence number: no such
\* line is in the output.
C18_NoSmashLineInOutput ==
    /\ [][LineRetained => ~StartsWith(CodeZone(Columns80(nz_lines[nz_i])), "SMASH")]_vars
    /\ [](\A k \in 1..Len(out_lines) : ~StartsWith(CodeZone(out_lines[k]), "SMASH"))

\* C19: for a start value s in 1..999999 the k-th line put out carries
\* s+k-1 as six zero-padded digits, no line carries a number above 999999,
\* and once the line numbered 999999 is put out the loop is over (the lines
\* left are not put out) while the file is still written.
C19_SequenceNumbersFromStart ==
    (seq_start \in 1..MaxSeq /\ nz_pc \in {"run1", "written"}) =>
        LET out == IF nz_pc = "run1" THEN out_lines ELSE first_out IN
        /\ \A k \in 1..Len(out) :
              /\ seq_start + k - 1 <= MaxSeq
              /\ Slice(out[k], 0, 6) = Format06d(seq_start + k - 1)
              /\ Len(DigitsOf(seq_start + k - 1)) <= 6
        /\ (nz_pc = "run1" /\ Len(out) = MaxSeq - seq_start + 1) =>
              /\ nz_i > Len(nz_lines)
              /\ ENABLED NormWrite

\* the line numbered 999999 was put out for the first of two lines that
\* would both be retained, and the file is written with that line only
C19_Witness ==
    /\ nz_pc = "written"
    /\ seq_start = MaxSeq
    /\ nz_lines = <<"000100 MOVE A TO B.\n", "000300-    'CONT'">>
    /\ Len(first_out) = 1
    /\ Slice(first_out[1], 0, 6) = "999999"

\* C20 as stated: the line put out for a retained line has exactly 80
\* columns; its columns 7-72 are those of the input line (padded with
\* blanks or cut to 80 columns), its columns 73-80 are blank, and only
\* columns 1-6 are rewritten.
C20_OutputLineKeepsColumns7To72 ==
    [][LineRetained =>
        LET line     == Columns80(nz_lines[nz_i])
            new_line == out_lines'[Len(out_lines')]
        IN  /\ EndsWith(new_line, "\n")
            /\ Len(new_line) = 80 + 1
            /\ Slice(new_line, 6, 72) = Slice(line, 6, 72)
            /\ Slice(new_line, 72, 80) = "        "]_vars

(***************************************************************************)
(* Properties of the COPY expansion                                        *)
(***************************************************************************)
CopyDone == cp_pc = "done"
CopyA == "       COPY A.\n"
CopyB == "       COPY B.\n"
\* the modules whose expansion is in progress
Expanding == {cp_frames[k].name : k \in 2..Len(cp_frames)}
\* the COPY statement at the current line of the innermost call: the module it
\* names ("" when the line is no COPY statement) and the lines it spans
CurrentCopy ==
    LET f == cp_frames[Len(cp_frames)]
        n == CollectCount(f.lines, f.i)
        stmt_lines == SubSeq(f.lines, f.i, f.i + n - 1)
    IN  IF cp_mode = "pipeline"
        THEN [name |-> CopyNameOfLine(f.lines[f.i]), lines |-> <<f.lines[f.i]>>]
        ELSE IF _is_comment_line(f.lines[f.i]) \/ ~HasCopyWord(f.lines[f.i])
        THEN [name |-> "", lines |-> <<>>]
        ELSE [name |-> _extract_copybook_name(StmtText(stmt_lines)), lines |-> stmt_lines]
\* a COPY of a module already being expanded is met: the statement is put out
\* as it stands and no call is made
InnermostCopyLeftLiteral ==
    LET d == Len(cp_frames)
        f == cp_frames[d]
    IN  (/\ cp_pc = "run"
         /\ f.i <= Len(f.lines)
         /\ CurrentCopy.name \in Expanding)
        => /\ cp_pc' = "run"
           /\ Len(cp_frames') = d
           /\ cp_frames'[d].out = f.out \o CurrentCopy.lines
\* the output of expanding "COPY A." when A includes B and B includes A
RingOutput ==
    << _sentinel_start("A"), _sentinel_start("B"), CopyA,
       _sentinel_end("B"), _sentinel_end("A") >>

\* a bound on the iterations and returns of one expansion, for a program of at
\* most two lines over modules of MaxLibLines lines in all
StepBound == (MaxLibLines + 2) * (MaxLibLines + 2)
\* while the expansion runs, the innermost call can iterate or return
CanStep ==
    cp_pc = "run" =>
        /\ cp_frames # <<>>
        /\ LET f == cp_frames[Len(cp_frames)]
           IN  f.i >= 1 /\ f.i <= Len(f.lines) + 1

\* C1: copy expansion terminates for every finite set of copy modules, also
\* when a module includes itself directly or transitively (A -> B -> A): no
\* exception is raised, the expansion is never stuck and takes a bounded
\* number of iterations and returns, no more calls are in progress than
\* there are modules, and the COPY statement met while its module is
\* already being expanded is left unexpanded in the output.
C1_CopyExpansionTerminates ==
    /\ [](cp_pc # "raised")
    /\ [](CanStep /\ cp_steps <= StepBound)
    /\ [](Len(cp_frames) <= Cardinality(ModuleNames) + 1)
    /\ [][InnermostCopyLeftLiteral]_vars
    /\ []((/\ CopyDone
           /\ cp_frames[1].lines = <<CopyA>>
           /\ library = [m \in ModuleNames |-> IF m = "A" THEN <<CopyB>> ELSE <<CopyA>>])
          => cp_output = RingOutput)

\* "COPY A." has been expanded over A -> B -> A and the inner COPY A is in the output
C1_Witness ==
    /\ CopyDone
    /\ library["A"] = <<CopyB>>
    /\ library["B"] = <<CopyA>>
    /\ cp_frames[1].lines = <<CopyA>>
    /\ InSeq(cp_output, CopyA)

\* the archive expander has expanded "COPY A REPLACING ==OLD== BY ==NEW==."
\* over a module A whose text is "MOVE ==OLD== TO X."
ReplacingCase ==
    /\ CopyDone
    /\ cp_mode = "archive"
    /\ cp_frames[1].lines = <<"       COPY A REPLACING ==OLD== BY ==NEW==.\n">>
    /\ library["A"] = <<"           MOVE ==OLD== TO X.\n">>
OutputHas(sub) == \E k \in 1..Len(cp_output) : Contains(cp_output[k], sub)

\* C9 (as stated): expanding a COPY statement with REPLACING ==OLD== BY
\* ==NEW== over a module whose text is 'MOVE ==OLD== TO X.' yields output
\* containing 'MOVE NEW TO X.'.
C9_ReplacingDropsDelimiters == ReplacingCase => OutputHas("MOVE NEW TO X.")

\* C9 (amended): the same expansion yields the line 'MOVE ==NEW== TO X.'
\* between the sentinels of A: OLD is replaced by NEW and the delimiters
\* written in the module text stay in the output.
C9_ReplacingKeepsModuleDelimiters ==
    ReplacingCase =>
        cp_output = << _sentinel_start("A"),
                       "           MOVE ==NEW== TO X.\n",
                       _sentinel_end("A") >>

\* the REPLACING case has been expanded
C9_Witness == ReplacingCase /\ OutputHas("MOVE ==NEW== TO X.")

\* the lines ls stand in the output, one after the other
OutputHolds(ls) ==
    \E k \in 0..(Len(cp_output) - Len(ls)) : SubSeq(cp_output, k + 1, k + Len(ls)) = ls
\* the COPY statement at the current line names a module that is not found or
\* is already being expanded: its lines are put out as they stand, where the
\* statement stood, and no call is made
UnexpandedCopyPutOut ==
    LET d == Len(cp_frames)
        f == cp_frames[d]
    IN  (/\ cp_pc = "run"
         /\ f.i <= Len(f.lines)
         /\ CurrentCopy.name # ""
         /\ CurrentCopy.name \in Expanding \/ CurrentCopy.name \notin ModuleNames)
        => /\ cp_pc' = "run"
           /\ Len(cp_frames') = d
           /\ cp_frames'[d].out = f.out \o CurrentCopy.lines
           /\ cp_frames'[d].i = f.i + Len(CurrentCopy.lines)

\* C16 as stated: a COPY statement naming a module that is not found, or a
\* module already being expanded in the current chain, is put out as it
\* stands in place of the statement; the final output holds its original
\* lines unchanged, and no *COPYBOOK / *END COPYBOOK sentinel is put out for it.
C16_UnexpandedCopyLeftLiteral ==
    /\ [][UnexpandedCopyPutOut]_vars
    /\ [](CopyDone =>
            \A c \in cp_literal :
                /\ OutputHolds(c.lines)
                /\ c.name \notin ModuleNames =>
                      /\ ~InSeq(cp_output, _sentinel_start(c.name))
                      /\ ~InSeq(cp_output, _sentinel_end(c.name)))

\* the module names of the chain of calls in progress: _stack (pipeline),
\* seen_copybooks of the innermost call (archive)
Chain == IF cp_mode = "pipeline" THEN _stack ELSE cp_frames[Len(cp_frames)].seen
\* the module names the COPY statements of the program and of the copy
\* modules refer to
Referenced ==
    LET texts == cp_frames[1].lines \o library["A"] \o library["B"]
        NameOf(l) == IF cp_mode = "pipeline" THEN CopyNameOfLine(l)
                     ELSE IF _is_comment_line(l) \/ ~HasCopyWord(l) THEN ""
                     ELSE _extract_copybook_name(StmtText(<<l>>))
    IN  {NameOf(texts[k]) : k \in 1..Len(texts)} \ {""}

\* C17: at every point of a copy expansion the recursion depth equals the
\* size of the set of module names being expanded, no name occurs twice in
\* the chain of calls, and the depth does not exceed the number of distinct
\* copy modules referenced.
C17_DepthIsSizeOfChain ==
    cp_pc = "run" =>
        LET depth == Len(cp_frames) - 1 IN
        /\ Chain = Expanding
        /\ depth = Cardinality(Chain)
        /\ \A j, k \in 2..Len(cp_frames) : cp_frames[j].name = cp_frames[k].name => j = k
        /\ depth <= Cardinality(Referenced)

\* module A is being expanded from within module B, itself expanded from
\* the program
C17_Witness ==
    /\ cp_pc = "run"
    /\ Len(cp_frames) = 3
    /\ cp_frames[2].name = "B"
    /\ cp_frames[3].name = "A"
    /\ Chain = {"A", "B"}

(***************************************************************************)
(* Properties of the program dictionary                                    *)
(***************************************************************************)
\* C24 as stated: every level-66 and level-77 row of the program dictionary
\* has an empty parent_name and a full_path equal to its own name, whatever
\* group items precede it in the same section.
C24_IndependentItemHasNoParent ==
    \A k \in 1..Len(program_rows) :
        program_rows[k].level \in {"66", "77"}
            => /\ program_rows[k].parent_name = ""
               /\ program_rows[k].full_path = program_rows[k].name

\* what the builder does instead: a level-66 or level-77 row takes the item
\* on top of the stack as its parent
C24_IndependentItemUnderStackTop ==
    [][\A k \in 1..Len(program_rows') :
          (k > Len(program_rows) /\ program_rows'[k].level \in {"66", "77"})
              => program_rows'[k].parent_name =
                    (IF pd_stack = <<>> THEN "" ELSE pd_stack[Len(pd_stack)][2])]_vars

(***************************************************************************)
(* Properties of the source attribution of the data dictionary             *)
(***************************************************************************)
\* the code part of a sentinel line, upper-cased and stripped
SentinelOf(line) == Strip(Upper(extract_code_part(line)))

IsEndSentinel(line) == StartsWith(SentinelOf(line), "*END COPYBOOK")

\* the module an *END COPYBOOK sentinel names
EndSentinelName(line) == TakeName(LStrip(SliceFrom(SentinelOf(line), Len("*END COPYBOOK"))))

\* the module a *COPYBOOK sentinel names, "" for any other line
StartSentinelName(line) ==
    IF IsEndSentinel(line) THEN "" ELSE detect_copy_source(extract_code_part(line), "")

\* the modules open after the lines ls, innermost last; <<"?">> once an
\* *END COPYBOOK sentinel does not close the innermost open module
RECURSIVE OpenModules(_)
OpenModules(ls) ==
    IF ls = <<>> THEN <<>>
    ELSE LET before == OpenModules(SubSeq(ls, 1, Len(ls) - 1))
             line   == ls[Len(ls)]
         IN  IF before = <<"?">> THEN before
             ELSE IF IsEndSentinel(line)
             THEN IF before # <<>> /\ before[Len(before)] = EndSentinelName(line)
                  THEN SubSeq(before, 1, Len(before) - 1)
                  ELSE <<"?">>
             ELSE IF StartSentinelName(line) # ""
             THEN Append(before, StartSentinelName(line))
             ELSE before

\* the module a declaration at the end of the lines ls belongs to
InnermostOpen(ls) ==
    IF OpenModules(ls) = <<>> THEN "MAIN" ELSE OpenModules(ls)[Len(OpenModules(ls))]

\* C25 as stated: each declaration is attributed to the innermost copy module
\* whose *COPYBOOK sentinel is open at its line, and to MAIN only when no
\* module is open; after the *END COPYBOOK of a module nested in A, the
\* declarations of A are attributed to A.
C25_SourceIsInnermostOpenModule ==
    [][(Len(entries') = Len(entries) + 1 /\ OpenModules(dd_input') # <<"?">>)
          => entries'[Len(entries')].source = InnermostOpen(dd_input')]_vars

\* what the builder does: after any *END COPYBOOK the source is MAIN, and
\* otherwise it is the module of the last *COPYBOOK sentinel read
C25_SourceIsMainAfterAnyEnd ==
    [][(Len(dd_input') = Len(dd_input) + 1 /\ IsEndSentinel(dd_input'[Len(dd_input')]))
          => current_source' = "MAIN"]_vars

\* the pseudo-text marker r":DEPENDING ON [A-Z0-9\-]+:" occurs in the line
HasDependingOnMarker(line) == RemoveDependingOn(line) # line

\* C26 as stated: after a copy module is resolved and included by the archive
\* expander, the included text contains no residual ":DEPENDING ON <name>:"
\* marker, whether the COPY statement carries a REPLACING clause or not.
C26_NoResidualDependingOn ==
    (CopyDone /\ cp_mode = "archive")
        => \A k \in 1..Len(cp_output) : ~HasDependingOnMarker(cp_output[k])

\* what the expander does: the marker is removed when the outermost COPY
\* statement has REPLACING pairs
C26_NoResidualUnderReplacing ==
    (CopyDone /\ cp_mode = "archive"
        /\ extract_replacing_pairs(StmtText(cp_frames[1].lines)) # <<>>)
        => \A k \in 1..Len(cp_output) : ~HasDependingOnMarker(cp_output[k])

\* the module a "      *COPYBOOK X" output line names, "" for any other line
StartSentinelOf(line) ==
    IF StartsWith(line, "      *COPYBOOK ")
    THEN RStripChar(SliceFrom(line, Len("      *COPYBOOK ")), "\n") ELSE ""

\* the module a "      *END COPYBOOK X" output line names, "" for any other line
EndSentinelOf(line) ==
    IF StartsWith(line, "      *END COPYBOOK ")
    THEN RStripChar(SliceFrom(line, Len("      *END COPYBOOK ")), "\n") ELSE ""

\* the modules whose sentinel pair is open after the lines ls, innermost last;
\* <<"?">> once an end sentinel does not close the innermost open pair
RECURSIVE OpenPairs(_)
OpenPairs(ls) ==
    IF ls = <<>> THEN <<>>
    ELSE LET before == OpenPairs(SubSeq(ls, 1, Len(ls) - 1))
             line   == ls[Len(ls)]
         IN  IF before = <<"?">> THEN before
             ELSE IF EndSentinelOf(line) # ""
             THEN IF before # <<>> /\ before[Len(before)] = EndSentinelOf(line)
                  THEN SubSeq(before, 1, Len(before) - 1)
                  ELSE <<"?">>
             ELSE IF StartSentinelOf(line) # ""
             THEN Append(before, StartSentinelOf(line))
             ELSE before

\* C29 as stated: in the output of copy expansion the sentinel lines are
\* balanced and properly nested (every *COPYBOOK X line is closed by a matching
\* *END COPYBOOK X line, nested pairs inside the including pair), and a
\* sentinel pair is emitted only for a module that was resolved and included.
C29_SentinelsBalancedAndOfIncludedModules ==
    CopyDone =>
        /\ OpenPairs(cp_output) = <<>>
        /\ \A k \in 1..Len(cp_output) :
              StartSentinelOf(cp_output[k]) # "" => StartSentinelOf(cp_output[k]) \in ModuleNames

\* what holds of both expanders: the sentinel lines are balanced and nested
C29_SentinelsBalanced == CopyDone => OpenPairs(cp_output) = <<>>

\* and the pipeline expander, which has no REPLACING, names included modules only
C29_PipelineSentinelsOfIncludedModules ==
    (CopyDone /\ cp_mode = "pipeline") =>
        \A k \in 1..Len(cp_output) :
            StartSentinelOf(cp_output[k]) # "" => StartSentinelOf(cp_output[k]) \in ModuleNames

(***************************************************************************)
(* Properties of the paragraph spans                                       *)
(***************************************************************************)
\* the sequence number of line k of the .etude
SeqNo(k) == IntOf(Strip(Slice(ps_lines[k], 0, 6)))

\* every line has a sequence number, and they are strictly increasing
StrictlyIncreasing ==
    /\ \A k \in 1..Len(ps_lines) : IsDigits(Slice(ps_lines[k], 0, 6))
    /\ \A k \in 1..(Len(ps_lines) - 1) : SeqNo(k) < SeqNo(k + 1)

\* the lines that are paragraph headers of the PROCEDURE DIVISION
Headers ==
    {k \in 1..Len(ps_lines) :
        /\ is_paragraph_line(LJust(ps_lines[k], 72))
        /\ \E j \in 1..(k - 1) :
              StartsWith(Upper(Strip(Slice(ps_lines[j], 7, 72))), "PROCEDURE DIVISION")}

\* the last header at or before line k
NearestHeader(k) == SetMax({h \in Headers : h <= k})

HeaderName(h) == RStripChar(Split(Slice(ps_lines[h], 7, 72))[1], ".")

\* the ranges that hold the sequence number n
RangesHolding(n) == {k \in 1..Len(ranges) : ranges[k].start <= n /\ n <= ranges[k].end}

\* C30: for a program whose sequence numbers are strictly increasing, the
\* spans [deb_proc, fin_proc] satisfy deb_proc <= fin_proc, are pairwise
\* disjoint and cover every sequence number from the first paragraph header to
\* the last line of the file, and _find_paragraph_for_seq assigns each such
\* line to exactly one paragraph, the one with the nearest preceding header.
C30_SpansPartitionTheProcedure ==
    (ps_pc = "done" /\ StrictlyIncreasing /\ Headers # {}) =>
        /\ Len(ranges) = Cardinality(Headers)
        /\ \A k \in 1..Len(ranges) : ranges[k].start <= ranges[k].end
        /\ \A i, j \in 1..Len(ranges) : i < j => ranges[i].end < ranges[j].start
        /\ ranges[1].start = SeqNo(SetMin(Headers))
        /\ \A n \in SeqNo(SetMin(Headers))..SeqNo(Len(ps_lines)) :
              Cardinality(RangesHolding(n)) = 1
        /\ \A k \in SetMin(Headers)..Len(ps_lines) :
              /\ _find_paragraph_for_seq(SeqNo(k), ranges) = HeaderName(NearestHeader(k))
              /\ ranges[SetMin(RangesHolding(SeqNo(k)))].start = SeqNo(NearestHeader(k))

\* two paragraphs, the first with a statement line: the first spans 101-299
\* and holds the statement at 200, the second is the last line alone
C30_Witness ==
    /\ ps_pc = "done"
    /\ StrictlyIncreasing
    /\ ps_lines = <<"000100 PROCEDURE DIVISION.", "000101 PARA-A.",
                    "000200     MOVE A TO B.", "000300 PARA-A.">>
    /\ ranges = <<[start |-> 101, end |-> 299, paragraph |-> "PARA-A"],
                  [start |-> 300, end |-> 300, paragraph |-> "PARA-A"]>>
    /\ RangesHolding(200) = {1}
    /\ RangesHolding(300) = {2}

====
